---- MODULE Spec2Model ----
(***************************************************************************)
(* ctx-router: route registry, two-tier route store, matcher and the exec  *)
(* lifecycle (hooks, sealing, SEQ / INFLIGHT counters).                    *)
(*                                                                         *)
(* Strings are sequences of one-character strings, so that tokenising,     *)
(* joining and key building are computed the way the code computes them.   *)
(* Each exec call is a process whose steps are the synchronous segments    *)
(* between two awaits of lifecycle.exec.ts.                                *)
(***************************************************************************)
EXTENDS Integers, Sequences, FiniteSets, TLC

VARIABLES exactRoutes, paramRoutes, hooks, sealed, SEQ, INFLIGHT, thrown, calls,
          registered, stamped, builders, made, now, nextStatsAt, STATS, sampled,
          held

vars == <<exactRoutes, paramRoutes, hooks, sealed, SEQ, INFLIGHT, thrown, calls,
          registered, stamped, builders, made, now, nextStatsAt, STATS, sampled,
          held>>

(***************************************************************************)
(* Bounds                                                                  *)
(***************************************************************************)
\* exec calls that may be active at the same time (call slots)
MaxCalls == 2
\* exec calls started over the life of the engine
MaxSeq == 2
\* to() registrations over the life of the engine
MaxRoutes == 2
\* RouteBuilder objects created over the life of the engine
MaxBuilders == 3
\* the last reading of the clock, in milliseconds
MaxTime == 5000

\* const.ts: the stats refresh interval in milliseconds
STATS_INTERVAL_MS == 5000

(***************************************************************************)
(* Strings                                                                 *)
(***************************************************************************)
\* JavaScript undefined (an absent op); distinct from every string
Undefined == <<"undefined">>

LowerChars == <<"a", "b", "c", "d", "e", "f", "g", "h", "i", "j", "k", "l", "m", "n", "o", "p", "q", "r", "s", "t", "u", "v", "w", "x", "y", "z">>
UpperChars == <<"A", "B", "C", "D", "E", "F", "G", "H", "I", "J", "K", "L", "M", "N", "O", "P", "Q", "R", "S", "T", "U", "V", "W", "X", "Y", "Z">>

\* String.prototype.toUpperCase on one character
UpperChar(c) ==
    IF \E i \in 1..26 : LowerChars[i] = c
    THEN UpperChars[CHOOSE i \in 1..26 : LowerChars[i] = c]
    ELSE c

toUpperCase(s) == [i \in 1..Len(s) |-> UpperChar(s[i])]

IsWs(c) == c \in {" ", "\t"}

\* s.startsWith(p) / s.includes(c) for a one-character c
startsWith(s, p) == Len(s) >= Len(p) /\ SubSeq(s, 1, Len(p)) = p
includes(s, c) == \E i \in 1..Len(s) : s[i] = c

\* first index >= i of s that is not whitespace (Len(s)+1 if none)
RECURSIVE SkipWs(_, _)
SkipWs(s, i) == IF i <= Len(s) /\ IsWs(s[i]) THEN SkipWs(s, i + 1) ELSE i

\* seg.split(/\s+/): the tokens between maximal whitespace runs; a leading
\* or trailing run yields an empty token
RECURSIVE SplitFrom(_, _, _)
SplitFrom(s, i, cur) ==
    IF i > Len(s) THEN <<cur>>
    ELSE IF IsWs(s[i]) THEN <<cur>> \o SplitFrom(s, SkipWs(s, i), <<>>)
    ELSE SplitFrom(s, i + 1, Append(cur, s[i]))

split(s) == SplitFrom(s, 1, <<>>)

\* Array.prototype.join
RECURSIVE join(_, _)
join(parts, sep) ==
    IF Len(parts) = 0 THEN <<>>
    ELSE IF Len(parts) = 1 THEN parts[1]
    ELSE parts[1] \o sep \o join(Tail(parts), sep)

(***************************************************************************)
(* Route registry: analyzeSegments, buildPattern, addRouteToStorage        *)
(***************************************************************************)
httpMethods ==
    { <<"G", "E", "T">>, <<"P", "O", "S", "T">>, <<"P", "U", "T">>,
      <<"D", "E", "L", "E", "T", "E">>, <<"P", "A", "T", "C", "H">>,
      <<"H", "E", "A", "D">>, <<"O", "P", "T", "I", "O", "N", "S">> }

IsMethod(p) == toUpperCase(p) \in httpMethods
IsPathPart(p) == ~IsMethod(p)
NonEmpty(p) == Len(p) > 0
StripSlash(p) == IF startsWith(p, <<"/">>) THEN SubSeq(p, 2, Len(p)) ELSE p

\* an analysis that stores the verbs in upper case
SegHttp_Upper(seg) ==
    LET parts == split(seg)
    IN  IF \E i \in 1..Len(parts) : IsMethod(parts[i])
        THEN [i \in 1..Len(SelectSeq(parts, IsMethod)) |->
                 toUpperCase(SelectSeq(parts, IsMethod)[i])]
        ELSE <<>>
\* the contribution of one segment to httpSegments / nonHttpSegments
SegHttp(seg) ==
    LET parts == split(seg)
    IN  IF \E i \in 1..Len(parts) : IsMethod(parts[i])
        THEN SelectSeq(parts, IsMethod)
        ELSE <<>>

SegNonHttp(seg) ==
    LET parts == split(seg)
        paths == SelectSeq(parts, IsPathPart)
    IN  IF \E i \in 1..Len(parts) : IsMethod(parts[i])
        THEN SelectSeq([i \in 1..Len(paths) |-> StripSlash(paths[i])], NonEmpty)
        ELSE <<seg>>

\* push(...x) over the segment loop
RECURSIVE Flatten(_)
Flatten(xss) == IF Len(xss) = 0 THEN <<>> ELSE Head(xss) \o Flatten(Tail(xss))

analyzeSegments(segments) ==
    LET httpSegments == Flatten([i \in 1..Len(segments) |-> SegHttp(segments[i])])
    IN  [ hasHttp |-> Len(httpSegments) > 0,
          httpOp |-> IF Len(httpSegments) > 0 /\ Len(httpSegments[1]) > 0
                     THEN httpSegments[1] ELSE Undefined,
          nonHttpSegments |-> Flatten([i \in 1..Len(segments) |-> SegNonHttp(segments[i])]) ]

\* buildPattern that always joins with "/"
buildPattern_Slash(segments, isHttp) == join(segments, <<"/">>)
buildPattern(segments, isHttp) ==
    join(segments, IF isHttp THEN <<"/">> ELSE <<".">>)

buildHttpPattern(segments) ==
    LET pattern == buildPattern(segments, TRUE)
    IN  IF startsWith(pattern, <<"/">>) THEN pattern ELSE <<"/">> \o pattern

\* JavaScript truthiness of an optional string
Truthy(s) == s # Undefined /\ s # <<>>

\* a key that leaves the op out
StorageKey_PatternOnly(route) == <<":">> \o route.pattern
\* the key a route is stored under: "op:pattern", or ":pattern" without an op
StorageKey(route) ==
    IF Truthy(route.op) THEN route.op \o <<":">> \o route.pattern
    ELSE <<":">> \o route.pattern

\* a map that keeps the value a key was given first
MapSet_KeepFirst(m, k, v) == [x \in DOMAIN m \cup {k} |-> IF x \in DOMAIN m THEN m[x] ELSE v]
\* Map.prototype.set
MapSet(m, k, v) == [x \in DOMAIN m \cup {k} |-> IF x = k THEN v ELSE m[x]]

\* addRouteToStorage putting a parameterized entry at the head of the list
addRouteToStorage_Prepend(store, route, segments) ==
    LET entry == [route |-> route, segments |-> segments]
        hasParams == includes(route.pattern, ":")
    IN  IF hasParams
        THEN [store EXCEPT !.params = <<entry>> \o @]
        ELSE [store EXCEPT
                !.exact = MapSet(@, StorageKey(route), entry)]
\* addRouteToStorage: paramRoutes.push(entry) when the pattern includes ":",
\* exactRoutes.set(key, entry) otherwise
addRouteToStorage(store, route, segments) ==
    LET entry == [route |-> route, segments |-> segments]
        hasParams == includes(route.pattern, ":")
    IN  IF hasParams
        THEN [store EXCEPT !.params = Append(@, entry)]
        ELSE [store EXCEPT
                !.exact = MapSet(@, StorageKey(route), entry)]

\* the composed pipeline: the via() middlewares, then the handler
composedHandler(middleware, handler) == [mw |-> middleware, h |-> handler]

\* registerRouteFrom committing the primary route only
registerRouteFrom_PrimaryOnly(store, segments, middleware, handler) ==
    LET a == analyzeSegments(segments)
        route == [ op |-> IF a.hasHttp /\ a.httpOp # Undefined
                          THEN a.httpOp ELSE Undefined,
                   pattern |-> buildPattern(a.nonHttpSegments, FALSE),
                   handler |-> composedHandler(middleware, handler) ]
    IN  addRouteToStorage(store, route, segments)
registerRouteFrom(store, segments, middleware, handler) ==
    LET a == analyzeSegments(segments)
        composed == composedHandler(middleware, handler)
        route == [ op |-> IF a.hasHttp /\ a.httpOp # Undefined
                          THEN a.httpOp ELSE Undefined,
                   pattern |-> buildPattern(a.nonHttpSegments, FALSE),
                   handler |-> composed ]
        httpRoute == [ op |-> a.httpOp,
                       pattern |-> buildHttpPattern(a.nonHttpSegments),
                       handler |-> composed ]
        s1 == addRouteToStorage(store, route, segments)
    IN  IF a.hasHttp /\ a.httpOp # Undefined
        THEN addRouteToStorage(s1, httpRoute, segments)
        ELSE s1

(***************************************************************************)
(* Pattern matcher: path-to-regexp match(pattern, { decode })              *)
(***************************************************************************)
Delims == {"/", "#", "?"}
Digits == {"0", "1", "2", "3", "4", "5", "6", "7", "8", "9"}

IsNameChar(c) ==
    \/ \E i \in 1..26 : c = LowerChars[i] \/ c = UpperChars[i]
    \/ c \in Digits \/ c = "_"

\* first index >= i of p that is not a parameter-name character
RECURSIVE NameEnd(_, _)
NameEnd(p, i) == IF i <= Len(p) /\ IsNameChar(p[i]) THEN NameEnd(p, i + 1) ELSE i

\* the pattern as literal characters and named parameters
RECURSIVE Lex(_, _)
Lex(p, i) ==
    IF i > Len(p) THEN <<>>
    ELSE IF p[i] = ":"
         THEN <<[t |-> "param", v |-> SubSeq(p, i + 1, NameEnd(p, i + 1) - 1)]>>
              \o Lex(p, NameEnd(p, i + 1))
         ELSE <<[t |-> "lit", v |-> <<p[i]>>]>> \o Lex(p, i + 1)

NoMatch == [ok |-> FALSE, params |-> <<>>]

\* the compiled regular expression run on raw from position i: literals
\* compare case-insensitively, a parameter takes the shortest non-empty run
\* of non-delimiter characters that lets the rest match, and one trailing
\* delimiter is allowed
RECURSIVE MatchFrom(_, _, _, _, _)
MatchFrom(toks, k, raw, i, acc) ==
    IF k > Len(toks)
    THEN IF i > Len(raw) \/ (i = Len(raw) /\ raw[i] \in Delims)
         THEN [ok |-> TRUE, params |-> acc]
         ELSE NoMatch
    ELSE IF toks[k].t = "lit"
    THEN IF i <= Len(raw) /\ UpperChar(raw[i]) = UpperChar(toks[k].v[1])
         THEN MatchFrom(toks, k + 1, raw, i + 1, acc)
         ELSE NoMatch
    ELSE LET Take(n) == MatchFrom(toks, k + 1, raw, i + n,
                                  MapSet(acc, toks[k].v, SubSeq(raw, i, i + n - 1)))
             fits == { n \in 1..(Len(raw) - i + 1) :
                         /\ \A j \in i..(i + n - 1) : raw[j] \notin Delims
                         /\ Take(n).ok }
         IN  IF fits = {} THEN NoMatch
             ELSE Take(CHOOSE n \in fits : \A m \in fits : n <= m)

\* a matcher that captures nothing
matcher_NoParams(pattern, raw) ==
    [ok |-> MatchFrom(Lex(pattern, 1), 1, raw, 1, <<>>).ok, params |-> <<>>]
\* route.matcher(raw); decodeURIComponent leaves a value without "%" as it is
matcher(pattern, raw) == MatchFrom(Lex(pattern, 1), 1, raw, 1, <<>>)

(***************************************************************************)
(* Inputs: the chains registered and the invocations dispatched            *)
(***************************************************************************)
\* route("job").route("clean").to(hClean)
RegClean == [ segments |-> << <<"j", "o", "b">>, <<"c", "l", "e", "a", "n">> >>,
              middleware |-> <<>>, handler |-> "hClean" ]
\* route("job").route(":id").to(hWild)
RegWild == [ segments |-> << <<"j", "o", "b">>, <<":", "i", "d">> >>,
             middleware |-> <<>>, handler |-> "hWild" ]
\* route("job").route(":id").route("GET").via(m1).to(hGet)
RegGet == [ segments |-> << <<"j", "o", "b">>, <<":", "i", "d">>, <<"G", "E", "T">> >>,
            middleware |-> <<"m1">>, handler |-> "hGet" ]

Registrations == {RegClean, RegWild, RegGet}

\* route("GET /job/clean").to(hGetClean)
RegGetClean == [ segments |-> << <<"G", "E", "T", " ", "/", "j", "o", "b", "/", "c", "l", "e", "a", "n">> >>,
                 middleware |-> <<>>, handler |-> "hGetClean" ]

\* the chains registered when route resolution is examined
RouteChains == {RegClean, RegWild, RegGet, RegGetClean}

S_GET == <<"G", "E", "T">>
S_POST == <<"P", "O", "S", "T">>
PENDING == <<"P", "E", "N", "D", "I", "N", "G">>

NoData == <<>>

Invocations ==
    { [op |-> Undefined, raw |-> <<"j", "o", "b", ".", "c", "l", "e", "a", "n">>, data |-> NoData],
      [op |-> S_GET, raw |-> <<"j", "o", "b", ".", "4", "2">>, data |-> NoData] }

\* ctx.req.data as the adapter filled it: one key a parameter is named after
IdData == [k \in { <<"i", "d">> } |-> <<"9">>]

\* the invocations dispatched when route resolution is examined: op absent,
\* empty, GET or POST; raw in dot and slash form; data empty or holding id
InvocationsR ==
    [ op : {Undefined, <<>>, S_GET, S_POST},
      raw : { <<"j", "o", "b", ".", "c", "l", "e", "a", "n">>,
              <<"j", "o", "b", ".", "4", "2">>,
              <<"/", "j", "o", "b", "/", "4", "2">>,
              <<"/", "j", "o", "b", "/", "c", "l", "e", "a", "n">> },
      data : {NoData, IdData} ]

HookSlots == {"onExecBefore", "onExecAfter", "onExecError", "onExecFinally"}
\* the callbacks an application passes to the hook setters
HookFns == {"fn"}
\* an empty hook slot
None == "none"

Calls == 1..MaxCalls

(***************************************************************************)
(* Errors                                                                  *)
(***************************************************************************)
\* the value a user function (hook, middleware, handler) throws: an error
\* of a class of the application's; by names the function that threw it
UserError(who) == [name |-> "USER_ERROR", by |-> who, data |-> <<>>, class |-> "Error"]

NoError == [name |-> "none", by |-> "none", data |-> <<>>, class |-> "none"]

(***************************************************************************)
(* The error factory.  A JavaScript object is a function from the property *)
(* names it has to their values; values are named by strings.              *)
(***************************************************************************)
JsUndefined == "undefined"
JsNull == "null"
EmptyObject == "{}"

\* o[k], undefined when o has no property k
Get(o, k) == IF k \in DOMAIN o THEN o[k] ELSE JsUndefined
\* { ...a, ...b }
Spread(a, b) ==
    [k \in DOMAIN a \cup DOMAIN b |-> IF k \in DOMAIN b THEN b[k] ELSE a[k]]
\* falsy values among those used here
Falsy(v) == v \in {JsUndefined, JsNull, ""}

\* no error made yet
NoneMade == [made |-> FALSE]

\* new errorClass({ name, msg, data, info }): super(msg); super.name = name;
\* this.data = data || {}; if (typeof info !== "undefined") this.info = info
CtxBaseError(errorClass, o) ==
    [ class |-> errorClass, name |-> Get(o, "name"), message |-> Get(o, "msg"),
      own |-> [k \in {"data"} \cup (IF Get(o, "info") # JsUndefined THEN {"info"} ELSE {}) |->
                  IF k = "data"
                  THEN (IF Falsy(Get(o, "data")) THEN EmptyObject ELSE Get(o, "data"))
                  ELSE Get(o, "info")] ]

\* a factory whose catalog entries win over what it is given
createError_DefaultsLast(errorClass, key, msg, e) ==
    CtxBaseError(errorClass, Spread(e, [name |-> key, msg |-> msg]))
\* createError(errorClass, key, msg, e): new errorClass({ name: key, msg, ...e });
\* e undefined spreads as nothing
createError(errorClass, key, msg, e) ==
    CtxBaseError(errorClass, Spread([name |-> key, msg |-> msg], e))

\* the catalogs of the package and of its tests
RouterCatalog ==
    [ general |-> [UNKNOWN_ERROR |-> "Something went wrong"],
      hook |-> [HOOKS_ALREADY_SEALED |-> "Hooks must be registered during startup, before exec()"],
      router |-> [INVALID_ROUTE_SEGMENT |-> "Router.route() requires a non-empty string segment",
                  INVALID_MIDDLEWARE |-> "Router.via() requires function arguments",
                  INVALID_HANDLER |-> "Router.to() requires a function",
                  MISSING_SEGMENTS |-> "Cannot register handler without segments. Use .route(segment) first.",
                  MISSING_HANDLER |-> "Cannot register route without handler. Use .to(handler)."],
      handler |-> [HANDLER_NOT_FOUND |-> "Handler not found"] ]
AppCatalog ==
    [ auth |-> [UNAUTHORIZED |-> "User is not authorized", TOKEN_EXPIRED |-> "Token has expired"],
      validation |-> [INVALID_EMAIL |-> "Email address is invalid"] ]
Catalogs == {RouterCatalog, AppCatalog}
ErrorClasses == {"CtxRouterError", "CtxError"}

\* the argument of a factory: undefined, or an object with any of msg, data
\* and info (info may be given as null or as undefined)
NoParam == <<>>
ParamValues(k) ==
    CASE k = "msg" -> {"Custom unauthorized message", ""}
      [] k = "data" -> {"{reason}", EmptyObject}
      [] k = "info" -> {"{attemptedAt}", JsNull, JsUndefined}
ErrParams ==
    UNION { { e \in [D -> UNION {ParamValues(k) : k \in D}] :
                \A k \in D : e[k] \in ParamValues(k) } :
            D \in SUBSET {"msg", "data", "info"} }

\* ctxErrMap(errorClass, errKeyMsg): one factory per category and key
ctxErrMap(errorClass, errKeyMsg) ==
    [category \in DOMAIN errKeyMsg |->
        [key \in DOMAIN errKeyMsg[category] |->
            [e \in ErrParams |->
                createError(errorClass, key, errKeyMsg[category][key], e)]]]

\* an error map of the core made with the class of the applications
ctxRouterErr_AppClass(category, key, e) ==
    createError("CtxError", key, RouterCatalog[category][key], e)
\* ctxRouterErr = ctxErrMap(CtxRouterError, { general, hook, router, handler }):
\* ctxRouterErr.<category>.<key>(e)
ctxRouterErr(category, key, e) ==
    createError("CtxRouterError", key, RouterCatalog[category][key], e)

\* the category of the core's catalog a key belongs to
CategoryOf(key) == CHOOSE category \in DOMAIN RouterCatalog : key \in DOMAIN RouterCatalog[category]

\* throw ctxRouterErr.<category>.<key>(): the error object a synchronous
\* throw of the core carries, thrown keeping the key
Throw(key) == ctxRouterErr(CategoryOf(key), key, NoParam)

\* throw ctxRouterErr.handler.HANDLER_NOT_FOUND({ msg: `Handler not found
\* for route: ${rawKey}`, data: { route: rawKey } })
\* The object literal { route: rawKey } goes through the factory under the
\* name "{route}"; by names who threw.
HANDLER_NOT_FOUND(rawKey) ==
    LET e == ctxRouterErr("handler", "HANDLER_NOT_FOUND",
                          [msg |-> "Handler not found for route: ${rawKey}",
                           data |-> "{route}"])
    IN  [name |-> e.name, by |-> "router",
         data |-> IF e.own.data = "{route}" THEN [route |-> rawKey] ELSE <<>>,
         class |-> e.class]


(***************************************************************************)
(* State                                                                   *)
(***************************************************************************)
NoHandler == [mw |-> <<>>, h |-> "none"]

\* registered: the handlers committed by to(), in call order.  stamped: the
\* seq values written into ctx.meta.instance.seq, in call order.  builders:
\* the RouteBuilder objects created so far, in creation order.

\* a call slot before exec is called on it.  ctx fields: op, raw, pattern,
\* data, seq, inflight.  Control: pc (what the call awaits), handler and
\* stage (the pipeline being run), err (the caught error), completion and
\* error (what the try/catch decided).  History: events (the user functions
\* invoked, in order), threw (the user function of the try block that
\* threw), errorArg (the value handed to the error hook),
\* inflightBefore (INFLIGHT when exec was called), decrements.
\* Context objects are named by numbers: 0 is the ctx handed to exec, k the
\* fresh object stage k of the pipeline returned.  result is the object the
\* composed handler holds; received and returned (history) are the objects
\* each stage that ran was given and gave back.
\* Further ctx fields, as newCtx() fills them: id, traceId, spanId, cpu, mem
\* (meta.instance), ts (meta.ts), log (the buffer attached to meta, named
\* by a string), hasClientTs and clientTs (req.clientInvocation?.ts).  cur
\* is the object the variable ctx of exec refers to.  History: execs (the
\* exec calls made on this ctx), handedLog (the buffer the ctx carried when
\* exec was called), hookArgs (the object each hook was called with), tsOn
\* (the object the end timestamps were written on), resolvedWith (the
\* object exec resolved with), -1 where there is none.  A context object a
\* stage returns in place of the one it was given is taken to carry the
\* meta of the ctx it was made from.
PlaceholderTs == [in |-> -1, clientIn |-> -1, out |-> -1, execTime |-> -1, owd |-> -1]
NoLog == "undefined"
NewCtxLog == "log"
IdleCall ==
    [ pc |-> "idle", op |-> Undefined, raw |-> PENDING, pattern |-> PENDING,
      data |-> NoData, seq |-> -1, inflight |-> -1,
      handler |-> NoHandler, stage |-> 0,
      err |-> NoError, completion |-> "pending", error |-> NoError,
      events |-> <<>>, threw |-> "none", errorArg |-> NoError,
      inflightBefore |-> 0, decrements |-> 0,
      result |-> 0, received |-> <<>>, returned |-> <<>>,
      id |-> PENDING, traceId |-> PENDING, spanId |-> PENDING,
      cpu |-> -1, mem |-> -1, ts |-> PlaceholderTs, log |-> NewCtxLog,
      hasClientTs |-> FALSE, clientTs |-> 0,
      cur |-> 0, execs |-> 0, handedLog |-> NoLog,
      hookArgs |-> <<>>, tsOn |-> -1, resolvedWith |-> -1 ]

\* what the application holds of the router: the contexts newCtx() made
\* for it (their number) and the object the getter of the instance
\* counters returned last, if any
NothingHeld == [ctxs |-> 0, instance |-> <<>>]

Init ==
    /\ exactRoutes = <<>>
    /\ paramRoutes = <<>>
    /\ hooks = [s \in HookSlots |-> None]
    /\ sealed = FALSE
    /\ SEQ = 0
    /\ INFLIGHT = 0
    /\ thrown = "none"
    /\ calls = [c \in Calls |-> IdleCall]
    /\ registered = <<>>
    /\ stamped = <<>>
    /\ builders = <<>>
    /\ made = NoneMade
    /\ now = 0
    /\ nextStatsAt = 0
    /\ STATS = [cpu |-> -1, mem |-> -1]
    /\ sampled = <<>>
    /\ held = NothingHeld

(***************************************************************************)
(* Hook DSL                                                                *)
(***************************************************************************)
\* assertNotSealed that never throws
assertNotSealed_Never(isSealed) == "none"
\* assertNotSealed: the error it throws, or "none"
assertNotSealed(isSealed) == IF isSealed THEN "HOOKS_ALREADY_SEALED" ELSE "none"

\* hook.onExec.<slot>(fn)
SetHook(slot, fn) ==
    /\ thrown' = assertNotSealed(sealed)
    /\ hooks' = IF assertNotSealed(sealed) = "none"
                THEN [hooks EXCEPT ![slot] = fn]
                ELSE hooks
    /\ UNCHANGED <<held, now, nextStatsAt, STATS, sampled, made, builders, exactRoutes, paramRoutes, sealed, SEQ, INFLIGHT, calls, registered, stamped>>

SetBefore == \E fn \in HookFns : SetHook("onExecBefore", fn)
SetAfter == \E fn \in HookFns : SetHook("onExecAfter", fn)
SetError == \E fn \in HookFns : SetHook("onExecError", fn)
SetFinally == \E fn \in HookFns : SetHook("onExecFinally", fn)

(***************************************************************************)
(* Registration: route(...).via(...).to(handler)                           *)
(***************************************************************************)
To(reg) ==
    /\ Len(registered) < MaxRoutes
    /\ registered' = Append(registered, reg.handler)
    /\ LET store == registerRouteFrom([exact |-> exactRoutes, params |-> paramRoutes],
                                      reg.segments, reg.middleware, reg.handler)
       IN  /\ exactRoutes' = store.exact
           /\ paramRoutes' = store.params
    /\ thrown' = "none"
    /\ UNCHANGED <<held, now, nextStatsAt, STATS, sampled, made, builders, hooks, sealed, SEQ, INFLIGHT, calls, stamped>>

Register == \E reg \in Registrations : To(reg)

(***************************************************************************)
(* Route builder: CtxRouter.route, RouteBuilder.route / via / to           *)
(***************************************************************************)
\* a JavaScript value handed to the builder: its typeof and its content
Str(s) == [typeof |-> "string", value |-> s]
Fn(name) == [typeof |-> "function", value |-> name]

\* router.route(segment) arguments: a segment, the empty string, the number 42
RootArgs ==
    { Str(<<"j", "o", "b">>), Str(<<>>), [typeof |-> "number", value |-> <<"4", "2">>] }
\* builder.route(segment) arguments: a segment, the empty string, the number 42
SegmentArgs ==
    { Str(<<":", "i", "d">>), Str(<<>>), [typeof |-> "number", value |-> <<"4", "2">>] }
\* via(...fns) arguments: one middleware; a middleware and a plain object
MiddlewareArgs ==
    { <<Fn("m1")>>, <<Fn("m2"), [typeof |-> "object", value |-> "m3"]>> }
\* to(handler) arguments: a function, a plain object
HandlerArgs == { Fn("hB"), [typeof |-> "object", value |-> "hB"] }
\* registerRouteFrom called directly: no segments, a missing handler
DirectSegments == { <<>>, << <<"j", "o", "b">> >> }
DirectHandlers == { Fn("hD"), [typeof |-> "undefined", value |-> "undefined"] }

\* typeof segment !== "string" || segment.length === 0
routeError(segment) ==
    IF segment.typeof # "string" \/ Len(segment.value) = 0
    THEN "INVALID_ROUTE_SEGMENT" ELSE "none"

\* the loop of via(): the first argument that is not a function throws
viaError(fns) ==
    IF \E i \in 1..Len(fns) : fns[i].typeof # "function"
    THEN "INVALID_MIDDLEWARE" ELSE "none"

\* to() accepting any handler
toError_Never(handler) == "none"
\* typeof handler !== "function"
toError(handler) ==
    IF handler.typeof # "function" THEN "INVALID_HANDLER" ELSE "none"

\* the two guards at the head of registerRouteFrom
registerRouteFromError(segments, handler) ==
    IF Len(segments) = 0 THEN "MISSING_SEGMENTS"
    ELSE IF handler.typeof = "undefined" THEN "MISSING_HANDLER"
    ELSE "none"

\* A builder object holds segments and middleware; parent (0 for one made
\* by CtxRouter.route), added and via record the call that made it.
\* new RouteBuilder(this, [segment], [])
CtxRouter_route(heap, segment) ==
    Append(heap, [ segments |-> <<segment.value>>, middleware |-> <<>>,
                   parent |-> 0, added |-> <<segment.value>>, via |-> <<>> ])

\* route() pushing the segment onto the receiver's own array and sharing it
RouteBuilder_route_Push(heap, b, segment) ==
    Append([heap EXCEPT ![b].segments = Append(@, segment.value)],
           [ segments |-> Append(heap[b].segments, segment.value),
             middleware |-> heap[b].middleware,
             parent |-> b, added |-> <<segment.value>>, via |-> <<>> ])
\* new RouteBuilder(this.router, [...this.segments, segment], [...this.middleware])
RouteBuilder_route(heap, b, segment) ==
    Append(heap, [ segments |-> Append(heap[b].segments, segment.value),
                   middleware |-> heap[b].middleware,
                   parent |-> b, added |-> <<segment.value>>, via |-> <<>> ])

\* new RouteBuilder(this.router, [...this.segments], [...this.middleware, ...fns])
RouteBuilder_via(heap, b, fns) ==
    LET values == [i \in 1..Len(fns) |-> fns[i].value]
    IN  Append(heap, [ segments |-> heap[b].segments,
                       middleware |-> heap[b].middleware \o values,
                       parent |-> b, added |-> <<>>, via |-> values ])

\* router.route(segment)
RouterRoute(segment) ==
    /\ routeError(segment) = "none" => Len(builders) < MaxBuilders
    /\ thrown' = routeError(segment)
    /\ builders' = IF routeError(segment) = "none"
                   THEN CtxRouter_route(builders, segment) ELSE builders
    /\ UNCHANGED <<held, now, nextStatsAt, STATS, sampled, made, exactRoutes, paramRoutes, hooks, sealed, SEQ, INFLIGHT, calls, registered, stamped>>

\* builder.route(segment)
BuilderRoute(b, segment) ==
    /\ routeError(segment) = "none" => Len(builders) < MaxBuilders
    /\ thrown' = routeError(segment)
    /\ builders' = IF routeError(segment) = "none"
                   THEN RouteBuilder_route(builders, b, segment) ELSE builders
    /\ UNCHANGED <<held, now, nextStatsAt, STATS, sampled, made, exactRoutes, paramRoutes, hooks, sealed, SEQ, INFLIGHT, calls, registered, stamped>>

\* builder.via(...fns)
BuilderVia(b, fns) ==
    /\ viaError(fns) = "none" => Len(builders) < MaxBuilders
    /\ thrown' = viaError(fns)
    /\ builders' = IF viaError(fns) = "none"
                   THEN RouteBuilder_via(builders, b, fns) ELSE builders
    /\ UNCHANGED <<held, now, nextStatsAt, STATS, sampled, made, exactRoutes, paramRoutes, hooks, sealed, SEQ, INFLIGHT, calls, registered, stamped>>

\* router.registerRouteFrom(segments, middleware, handler): the guards, then
\* the commit
RegisterRouteFrom(segments, middleware, handler) ==
    LET err == registerRouteFromError(segments, handler)
        store == registerRouteFrom([exact |-> exactRoutes, params |-> paramRoutes],
                                   segments, middleware, handler.value)
    IN  /\ err = "none" => Len(registered) < MaxRoutes
        /\ thrown' = err
        /\ exactRoutes' = IF err = "none" THEN store.exact ELSE exactRoutes
        /\ paramRoutes' = IF err = "none" THEN store.params ELSE paramRoutes
        /\ registered' = IF err = "none" THEN Append(registered, handler.value)
                         ELSE registered
        /\ UNCHANGED <<held, now, nextStatsAt, STATS, sampled, made, builders, hooks, sealed, SEQ, INFLIGHT, calls, stamped>>

\* builder.to(handler)
BuilderTo(b, handler) ==
    IF toError(handler) # "none"
    THEN /\ thrown' = toError(handler)
         /\ UNCHANGED <<held, now, nextStatsAt, STATS, sampled, made, builders, exactRoutes, paramRoutes, hooks, sealed, SEQ, INFLIGHT,
                        calls, registered, stamped>>
    ELSE RegisterRouteFrom(builders[b].segments, builders[b].middleware, handler)

\* errMap.category.key(e) of a map made by ctxErrMap(errorClass, errKeyMsg)
MakeError ==
    /\ \E errorClass \in ErrorClasses, errKeyMsg \in Catalogs :
          \E category \in DOMAIN errKeyMsg :
             \E key \in DOMAIN errKeyMsg[category], e \in ErrParams :
                made' = [ made |-> TRUE, errorClass |-> errorClass, errKeyMsg |-> errKeyMsg,
                          category |-> category, key |-> key, e |-> e,
                          error |-> ctxErrMap(errorClass, errKeyMsg)[category][key][e] ]
    /\ UNCHANGED <<held, now, nextStatsAt, STATS, sampled, builders, exactRoutes, paramRoutes, hooks, sealed, SEQ, INFLIGHT, thrown, calls, registered, stamped>>

Builders == 1..Len(builders)

NewBuilder == \E segment \in RootArgs : RouterRoute(segment)
ChainRoute == \E b \in Builders, segment \in SegmentArgs : BuilderRoute(b, segment)
ChainVia == \E b \in Builders, fns \in MiddlewareArgs : BuilderVia(b, fns)
ChainTo == \E b \in Builders, handler \in HandlerArgs : BuilderTo(b, handler)
DirectRegister ==
    \E segments \in DirectSegments, handler \in DirectHandlers :
        RegisterRouteFrom(segments, <<>>, handler)

(***************************************************************************)
(* Instance counters                                                       *)
(***************************************************************************)
\* getNextSeq skipping a value
getNextSeq_Skip(seq) == seq + 2
\* a sequence counter that stops counting at 1
getNextSeq_Reuse(seq) == IF seq = 0 THEN 1 ELSE seq
getNextSeq(seq) == seq + 1
\* a gauge that is not raised
incrementInflight_Keep(n) == n
incrementInflight(n) == n + 1
\* decrementInflight leaving the gauge as it is
decrementInflight_Noop(n) == n
decrementInflight(n) == n - 1

(***************************************************************************)
(* exec: the segments of lifecycle.exec.ts between two awaits              *)
(***************************************************************************)
Outcomes == {"returns", "throws"}

Record(ctx, ev) == [ctx EXCEPT !.events = Append(@, ev)]
Threw(ctx, ev) == [ctx EXCEPT !.events = Append(@, ev), !.threw = ev]

\* the finally block is entered with what try/catch decided; it first calls
\* and awaits the finally hook
EnterFinally(ctx, completion, error) ==
    [ctx EXCEPT !.pc = "finally", !.completion = completion, !.error = error,
                !.resolvedWith = IF completion = "resolved" THEN ctx.cur ELSE -1]

\* what a hook may do: return nothing, return some other context object,
\* throw
HookOutcomes == {"returns", "returnsOther", "throws"}
\* the context object a hook returns when it returns one of its own
HookObject(hook) ==
    CASE hook = "before" -> 11 [] hook = "after" -> 12
      [] hook = "error" -> 13 [] hook = "finally" -> 14

\* a hook call whose value is assigned to ctx
HookReturn_Assign(cur, ret) == ret
\* await hooks.onExecBefore?.(ctx) and the like: the value is dropped
HookReturn(cur, ret) == cur

\* a hook is called with the object ctx refers to; ret is the context
\* object it returned, -1 when it returned none or threw
Called(ctx, hook, ret) ==
    [ctx EXCEPT !.hookArgs = Append(@, [hook |-> hook, obj |-> ctx.cur, ret |-> ret])]
\* a hook was called and returned
HookRan(ctx, hook, out) ==
    IF out = "returnsOther"
    THEN [Called(Record(ctx, hook), hook, HookObject(hook)) EXCEPT
             !.cur = HookReturn(@, HookObject(hook))]
    ELSE Called(Record(ctx, hook), hook, -1)

\* a catch block that returns ctx also when there is no error hook
EnterCatch_Swallow(ctx, execError) ==
    IF hooks.onExecError # None
    THEN [ctx EXCEPT !.pc = "error", !.err = execError]
    ELSE EnterFinally([ctx EXCEPT !.err = execError], "resolved", NoError)
\* a catch block that wraps what it caught
EnterCatch_Wrap(ctx, execError) ==
    LET wrapped == [name |-> "EXEC_ERROR", by |-> "router", data |-> <<>>,
                    class |-> "CtxRouterError"]
    IN  IF hooks.onExecError # None
        THEN [ctx EXCEPT !.pc = "error", !.err = wrapped]
        ELSE EnterFinally([ctx EXCEPT !.err = wrapped], "rejected", wrapped)
\* catch (execError): call and await the error hook when there is one,
\* rethrow otherwise
EnterCatch(ctx, execError) ==
    IF hooks.onExecError # None
    THEN [ctx EXCEPT !.pc = "error", !.err = execError]
    ELSE EnterFinally([ctx EXCEPT !.err = execError], "rejected", execError)

\* a lookup key built with the separator of the error message
exactKey_Space(op, raw) ==
    IF Truthy(op) THEN op \o <<" ">> \o raw ELSE raw
\* the key looked up in the exact table
exactKey(op, raw) ==
    IF Truthy(op) THEN op \o <<":">> \o raw ELSE <<":">> \o raw

\* a route name that leaves the op out
rawKey_NoOp(op, raw) == raw
\* the route named in the error: "op raw", or raw without an op
rawKey(op, raw) == IF Truthy(op) THEN op \o <<" ">> \o raw ELSE raw

\* a parameter scan that does not look at op
ParamHit_AnyOp(entry, op, raw) == matcher(entry.route.pattern, raw).ok
\* the op check of the parameter scan followed by the pattern match
ParamHit(entry, op, raw) ==
    /\ entry.route.op # Undefined => (Truthy(op) /\ entry.route.op = op)
    /\ matcher(entry.route.pattern, raw).ok

\* a merge in which the captured parameters win
MergeParams_ParamsWin(matchedParams, data) ==
    [k \in DOMAIN matchedParams \cup DOMAIN data |->
        IF k \in DOMAIN matchedParams THEN matchedParams[k] ELSE data[k]]
\* { ...matchedParams, ...ctx.req.data }
MergeParams(matchedParams, data) ==
    [k \in DOMAIN matchedParams \cup DOMAIN data |->
        IF k \in DOMAIN data THEN data[k] ELSE matchedParams[k]]

\* route matching after the before hook returned: an exact hit or the first
\* hit of the parameter scan starts the route's pipeline, a miss throws
\* HANDLER_NOT_FOUND into the catch block
ResolveRoute(ctx) ==
    LET key == exactKey(ctx.op, ctx.raw)
        hits == { i \in 1..Len(paramRoutes) : ParamHit(paramRoutes[i], ctx.op, ctx.raw) }
        first == CHOOSE i \in hits : \A j \in hits : i <= j
    IN  IF key \in DOMAIN exactRoutes
        THEN [Record(ctx, "match") EXCEPT
                !.pattern = exactRoutes[key].route.pattern,
                !.handler = exactRoutes[key].route.handler,
                !.result = ctx.cur,
                !.stage = 1, !.pc = "pipeline"]
        ELSE IF hits # {}
        THEN [Record(ctx, "match") EXCEPT
                !.data = MergeParams(matcher(paramRoutes[first].route.pattern, ctx.raw).params, @),
                !.pattern = paramRoutes[first].route.pattern,
                !.handler = paramRoutes[first].route.handler,
                !.result = ctx.cur,
                !.stage = 1, !.pc = "pipeline"]
        ELSE EnterCatch(Record(ctx, "nomatch"), HANDLER_NOT_FOUND(rawKey(ctx.op, ctx.raw)))

\* a pipeline that runs the handler before the middlewares
Stages_HandlerFirst(handler) == <<handler.h>> \o handler.mw
\* the stages of a composed pipeline, in the order they run
Stages(handler) == Append(handler.mw, handler.h)

Active(c) == calls[c].pc \notin {"idle", "done"}

\* exec that leaves the flag as it is
seal_Keep(isSealed) == isSealed
\* this.sealed = true at the head of CtxRouter.exec
seal(isSealed) == TRUE

\* CtxRouter.exec(ctx): seal, begin bookkeeping, call the before hook
\* Date.now()
Date_now == now

\* updateStats(): STATS.cpu and STATS.mem are measured anew; a measurement
\* is named by its number, sampled (history) keeps when each was taken
updateStats ==
    /\ STATS' = [cpu |-> Len(sampled) + 1, mem |-> Len(sampled) + 1]
    /\ sampled' = Append(sampled, Date_now)

\* a refresh at every call
updateStatsIfStale_Always ==
    /\ updateStats
    /\ nextStatsAt' = Date_now + STATS_INTERVAL_MS
\* updateStatsIfStale(): if (now >= nextStatsAt) { updateStats();
\* nextStatsAt = now + STATS_INTERVAL_MS }
updateStatsIfStale ==
    IF Date_now >= nextStatsAt
    THEN /\ updateStats
         /\ nextStatsAt' = Date_now + STATS_INTERVAL_MS
    ELSE UNCHANGED <<nextStatsAt, STATS, sampled>>

\* the clock advances, by one millisecond less than the refresh interval or
\* by the interval
ClockSteps == {STATS_INTERVAL_MS - 1, STATS_INTERVAL_MS}
Tick ==
    /\ \E d \in ClockSteps : now + d <= MaxTime /\ now' = now + d
    /\ UNCHANGED <<held, nextStatsAt, STATS, sampled, made, builders, exactRoutes, paramRoutes, hooks, sealed, SEQ, INFLIGHT, thrown, calls, registered, stamped>>

\* the id of the router instance (random hex digits)
InstanceId == <<"a", "7">>

\* a number in decimal
RECURSIVE Decimal(_)
Decimal(n) ==
    LET d == <<"0", "1", "2", "3", "4", "5", "6", "7", "8", "9">>[(n % 10) + 1]
    IN  IF n < 10 THEN <<d>> ELSE Append(Decimal(n \div 10), d)

\* `${instance.ID}-${seq}`
TraceId(seq) == InstanceId \o <<"-">> \o Decimal(seq)

\* the ctx an adapter hands to exec for the first time: newCtx() with the
\* route and the data filled in and, when the caller has them, the client
\* timestamp and a log buffer of the caller's (or none at all)
Arrive(inv) ==
    [IdleCall EXCEPT !.op = inv.op, !.raw = inv.raw, !.data = inv.data,
                     !.hasClientTs = "clientTs" \in DOMAIN inv,
                     !.clientTs = IF "clientTs" \in DOMAIN inv THEN inv.clientTs ELSE 0,
                     !.log = IF "log" \in DOMAIN inv THEN inv.log ELSE @]

\* the ctx of a settled call handed to exec again: what the ctx holds is
\* kept, the call starts anew
Again(ctx) ==
    [IdleCall EXCEPT !.op = ctx.op, !.raw = ctx.raw, !.pattern = ctx.pattern,
                     !.data = ctx.data, !.seq = ctx.seq, !.inflight = ctx.inflight,
                     !.id = ctx.id, !.traceId = ctx.traceId, !.spanId = ctx.spanId,
                     !.cpu = ctx.cpu, !.mem = ctx.mem, !.ts = ctx.ts, !.log = ctx.log,
                     !.hasClientTs = ctx.hasClientTs, !.clientTs = ctx.clientTs,
                     !.execs = ctx.execs]

\* ctx.req.clientInvocation?.ts ?? inTime
clientInOf(ctx, inTime) == IF ctx.hasClientTs THEN ctx.clientTs ELSE inTime

\* a begin segment that carries the end timestamps of an earlier call over
BeginMeta_KeepOut(ctx, seq, inflight, stats, inTime) ==
    [ctx EXCEPT !.id = TraceId(seq), !.traceId = TraceId(seq), !.spanId = TraceId(seq),
                !.seq = seq, !.inflight = inflight,
                !.cpu = stats.cpu, !.mem = stats.mem,
                !.ts = [in |-> inTime, clientIn |-> clientInOf(ctx, inTime),
                        out |-> ctx.ts.out, execTime |-> ctx.ts.execTime,
                        owd |-> inTime - clientInOf(ctx, inTime)]]
\* ctx.id = traceId; ctx.meta = { serviceName, instance, ts, monitor,
\* ...(ctx.meta.log && { log: ctx.meta.log }) }
BeginMeta(ctx, seq, inflight, stats, inTime) ==
    [ctx EXCEPT !.id = TraceId(seq), !.traceId = TraceId(seq), !.spanId = TraceId(seq),
                !.seq = seq, !.inflight = inflight,
                !.cpu = stats.cpu, !.mem = stats.mem,
                !.ts = [in |-> inTime, clientIn |-> clientInOf(ctx, inTime),
                        out |-> -1, execTime |-> -1,
                        owd |-> inTime - clientInOf(ctx, inTime)]]

\* CtxRouter.exec(ctx) up to the first await, the route store aside: seal,
\* refresh the stats if stale, begin bookkeeping, call the before hook
Begins(c, ctx) ==
    /\ SEQ < MaxSeq
    /\ sealed' = seal(sealed)
    /\ updateStatsIfStale
    /\ SEQ' = getNextSeq(SEQ)
    /\ stamped' = Append(stamped, SEQ')
    /\ INFLIGHT' = incrementInflight(INFLIGHT)
    /\ calls' = [calls EXCEPT ![c] =
          [BeginMeta(ctx, SEQ', INFLIGHT', STATS', Date_now) EXCEPT
              !.pc = "before", !.inflightBefore = INFLIGHT,
              !.execs = @ + 1, !.handedLog = ctx.log]]
    /\ UNCHANGED <<held, now, made, builders, hooks, thrown, registered>>

\* a begin segment that empties the route store
Exec_Unregister(c, inv) ==
    /\ ~Active(c)
    /\ \A d \in Calls : d < c => Active(d)
    /\ Begins(c, Arrive(inv))
    /\ exactRoutes' = <<>>
    /\ paramRoutes' = <<>>

\* exec called on a ctx fresh from newCtx()
Exec(c, inv) ==
    /\ ~Active(c)
    /\ \A d \in Calls : d < c => Active(d)
    /\ Begins(c, Arrive(inv))
    /\ UNCHANGED <<exactRoutes, paramRoutes>>

\* exec called again on the ctx of a settled call
ExecAgain(c) ==
    /\ calls[c].pc = "done"
    /\ Begins(c, Again(calls[c]))
    /\ UNCHANGED <<exactRoutes, paramRoutes>>

\* the before hook settled (or there is none): match the route
BeforeSettlesWith(c, outs) ==
    /\ calls[c].pc = "before"
    /\ \/ /\ hooks.onExecBefore = None
          /\ calls' = [calls EXCEPT ![c] = ResolveRoute(@)]
       \/ /\ hooks.onExecBefore # None
          /\ \E out \in outs :
                calls' = [calls EXCEPT ![c] =
                    IF out = "throws"
                    THEN EnterCatch(Called(Threw(@, "before"), "before", -1), UserError("before"))
                    ELSE ResolveRoute(HookRan(@, "before", out))]
    /\ UNCHANGED <<held, now, nextStatsAt, STATS, sampled, made, builders, exactRoutes, paramRoutes, hooks, sealed, SEQ, INFLIGHT, thrown, registered, stamped>>

\* the before hook returns nothing or throws
BeforeSettles(c) == BeforeSettlesWith(c, Outcomes)

\* a dispatch that keeps the ctx it was called with
Assign_Keep(ctx, obj) == ctx
\* ctx = await route.handler(ctx)
Assign(ctx, obj) == [ctx EXCEPT !.cur = obj]

\* what a pipeline stage may do: return the ctx it was given, return
\* another ctx object, throw
StageOutcomes == {"returns", "returnsOther", "throws"}

\* a pipeline that hands every stage the ctx the composed handler was called with
StageArg_Original(ctx) == 0
\* mw(result) / handler(result): the argument of the stage about to run
StageArg(ctx) == ctx.result

\* the stage ran with StageArg and gave back object obj (result = await ...)
Ran(ctx, obj) ==
    [ctx EXCEPT !.received = Append(@, StageArg(ctx)),
                !.returned = Append(@, obj),
                !.result = obj]

\* one stage of the composed pipeline settled, with one of the outcomes outs
StageSettlesWith(c, outs) ==
    /\ calls[c].pc = "pipeline"
    /\ LET stages == Stages(calls[c].handler)
           k == calls[c].stage
       IN  \E out \in outs :
              calls' = [calls EXCEPT ![c] =
                  LET obj == IF out = "returnsOther" THEN k ELSE StageArg(@)
                  IN  IF out = "throws"
                      THEN EnterCatch([Threw(@, stages[k]) EXCEPT
                                          !.received = Append(@, StageArg(calls[c]))],
                                      UserError(stages[k]))
                      ELSE IF k < Len(stages)
                      THEN [Ran(Record(@, stages[k]), obj) EXCEPT !.stage = k + 1]
                      ELSE [Assign(Ran(Record(@, stages[k]), obj), obj) EXCEPT !.pc = "after"]]
    /\ UNCHANGED <<held, now, nextStatsAt, STATS, sampled, made, builders, exactRoutes, paramRoutes, hooks, sealed, SEQ, INFLIGHT, thrown, registered, stamped>>

\* one stage of the composed pipeline settled, the stage returning the ctx
\* it was given or throwing
StageSettles(c) == StageSettlesWith(c, Outcomes)

\* the after hook settled (or there is none): return ctx
AfterSettlesWith(c, outs) ==
    /\ calls[c].pc = "after"
    /\ \/ /\ hooks.onExecAfter = None
          /\ calls' = [calls EXCEPT ![c] = EnterFinally(@, "resolved", NoError)]
       \/ /\ hooks.onExecAfter # None
          /\ \E out \in outs :
                calls' = [calls EXCEPT ![c] =
                    IF out = "throws"
                    THEN EnterCatch(Called(Threw(@, "after"), "after", -1), UserError("after"))
                    ELSE EnterFinally(HookRan(@, "after", out), "resolved", NoError)]
    /\ UNCHANGED <<held, now, nextStatsAt, STATS, sampled, made, builders, exactRoutes, paramRoutes, hooks, sealed, SEQ, INFLIGHT, thrown, registered, stamped>>

\* the after hook returns nothing or throws
AfterSettles(c) == AfterSettlesWith(c, Outcomes)

\* the error hook settled: return ctx, or leave with what the hook threw
ErrorSettlesWith(c, outs) ==
    /\ calls[c].pc = "error"
    /\ \E out \in outs :
          calls' = [calls EXCEPT ![c] =
              IF out = "throws"
              THEN EnterFinally([Called(Record(@, "error"), "error", -1) EXCEPT
                                    !.errorArg = calls[c].err],
                                "rejected", UserError("error"))
              ELSE EnterFinally([HookRan(@, "error", out) EXCEPT
                                    !.errorArg = calls[c].err],
                                "resolved", NoError)]
    /\ UNCHANGED <<held, now, nextStatsAt, STATS, sampled, made, builders, exactRoutes, paramRoutes, hooks, sealed, SEQ, INFLIGHT, thrown, registered, stamped>>

\* the error hook returns nothing or throws
ErrorSettles(c) == ErrorSettlesWith(c, Outcomes)

\* outTime = Date.now(); execTime = outTime - ctx.meta.ts.in; ctx.meta.ts =
\* { in, clientIn, out: outTime, execTime, owd }; decrementInflight
End(ctx) ==
    [ctx EXCEPT !.ts = [@ EXCEPT !.out = Date_now, !.execTime = Date_now - ctx.ts.in],
                !.tsOn = ctx.cur,
                !.pc = "done", !.decrements = @ + 1]

\* the finally hook settled (or there is none): end bookkeeping and settle.
\* A finally hook that throws leaves the block before the end bookkeeping.
FinallySettlesWith(c, outs) ==
    /\ calls[c].pc = "finally"
    /\ \/ /\ hooks.onExecFinally = None
          /\ INFLIGHT' = decrementInflight(INFLIGHT)
          /\ calls' = [calls EXCEPT ![c] = End(@)]
       \/ /\ hooks.onExecFinally # None
          /\ \E out \in outs \ {"throws"} :
                /\ INFLIGHT' = decrementInflight(INFLIGHT)
                /\ calls' = [calls EXCEPT ![c] = End(HookRan(@, "finally", out))]
       \/ /\ hooks.onExecFinally # None
          /\ "throws" \in outs
          /\ INFLIGHT' = INFLIGHT
          /\ calls' = [calls EXCEPT ![c] =
                [Called(Record(@, "finally"), "finally", -1) EXCEPT
                    !.pc = "done", !.completion = "rejected",
                    !.error = UserError("finally"), !.resolvedWith = -1]]
    /\ UNCHANGED <<held, now, nextStatsAt, STATS, sampled, made, builders, exactRoutes, paramRoutes, hooks, sealed, SEQ, thrown, registered, stamped>>

\* the finally hook returns nothing or throws
FinallySettles(c) == FinallySettlesWith(c, Outcomes)

ExecCall == \E c \in Calls, inv \in Invocations : Exec(c, inv)
Before == \E c \in Calls : BeforeSettles(c)
Pipeline == \E c \in Calls : StageSettles(c)
After == \E c \in Calls : AfterSettles(c)
Catch == \E c \in Calls : ErrorSettles(c)
Finally == \E c \in Calls : FinallySettles(c)

Next ==
    \/ SetBefore \/ SetAfter \/ SetError \/ SetFinally
    \/ Register
    \/ NewBuilder \/ ChainRoute \/ ChainVia \/ ChainTo \/ DirectRegister
    \/ MakeError \/ Tick
    \/ ExecCall \/ Before \/ Pipeline \/ After \/ Catch \/ Finally

Spec == Init /\ [][Next]_vars

\* sequential use: exec is called only when no other call is in flight
Idle == \A c \in Calls : ~Active(c)
ExecSeq == Idle /\ ExecCall

NextSeq ==
    \/ SetBefore \/ SetAfter \/ SetError \/ SetFinally
    \/ Register
    \/ ExecSeq \/ Before \/ Pipeline \/ After \/ Catch \/ Finally

SpecSeq == Init /\ [][NextSeq]_vars

\* route resolution: chains are registered and invocations dispatched one
\* after the other on an engine without hooks
RegisterR == \E reg \in RouteChains : To(reg)
ExecR == Idle /\ \E c \in Calls, inv \in InvocationsR : Exec(c, inv)

NextRoute == RegisterR \/ ExecR \/ Before \/ Pipeline \/ After \/ Finally

SpecRoute == Init /\ [][NextRoute]_vars

\* build time: builders are derived from one another and registered
NextBuilder == NewBuilder \/ ChainRoute \/ ChainVia \/ ChainTo \/ DirectRegister

SpecBuilder == Init /\ [][NextBuilder]_vars

\* exec("GET", "job.42"), which is dispatched once RegGet is registered, and
\* exec("job.clean"), which is not
InvocationsC ==
    { [op |-> S_GET, raw |-> <<"j", "o", "b", ".", "4", "2">>, data |-> NoData],
      [op |-> Undefined, raw |-> <<"j", "o", "b", ".", "c", "l", "e", "a", "n">>, data |-> NoData] }

\* concurrent use: exec is called while other calls are suspended at an
\* await; every call has a record of its own
RegisterC == To(RegGet)
ExecC == \E c \in Calls, inv \in InvocationsC : calls[c].pc = "idle" /\ Exec(c, inv)

NextConc == SetFinally \/ RegisterC \/ ExecC \/ Before \/ Pipeline \/ After \/ Finally

SpecConc == Init /\ [][NextConc]_vars

\* what call c does when it is resumed after the route was resolved
Resume(c) == StageSettles(c) \/ AfterSettles(c) \/ FinallySettles(c)

\* the event loop resumes every suspended call whose awaited hook,
\* middleware or handler has settled.  BeforeSettles(c) is enabled exactly
\* when call c waits at the before hook and it ends that wait, so weak
\* fairness of it says that no call waits there forever.
SpecConcFair ==
    /\ SpecConc
    /\ \A c \in Calls : WF_vars(Resume(c)) /\ []<>(calls[c].pc # "before")

\* route("job.clean").to(hClean2): the pattern of RegClean from one segment
RegCleanAgain == [ segments |-> << <<"j", "o", "b", ".", "c", "l", "e", "a", "n">> >>,
                   middleware |-> <<>>, handler |-> "hClean2" ]

\* the chains registered when the two collections are examined
StoreChains == {RegClean, RegCleanAgain, RegGetClean, RegWild}

\* invocations whose op and raw share characters with the stored keys
InvocationsS ==
    [ op : {Undefined, <<>>, S_GET, <<"g", "e", "t">>},
      raw : { <<"j", "o", "b", ".", "c", "l", "e", "a", "n">>,
              <<"/", "j", "o", "b", "/", "c", "l", "e", "a", "n">>,
              <<"G", "E", "T", ":", "j", "o", "b", ".", "c", "l", "e", "a", "n">>,
              <<":", "j", "o", "b", ".", "c", "l", "e", "a", "n">> },
      data : {NoData} ]

\* registration and lookup in the two collections, without hooks
RegisterS == \E reg \in StoreChains : To(reg)
ExecS == Idle /\ \E c \in Calls, inv \in InvocationsS : Exec(c, inv)

NextStore == RegisterS \/ ExecS \/ Before \/ Pipeline \/ After \/ Finally

SpecStore == Init /\ [][NextStore]_vars

\* segments with and without a verb, with and without a leading "/"
GrammarSegments ==
    { <<"j", "o", "b">>, <<"/", "j", "o", "b">>, <<"G", "E", "T">>,
      <<"g", "e", "t", " ", "/", ":", "i", "d">>,
      <<"P", "O", "S", "T", " ", " ", "/", "a", " ", "P", "U", "T">> }

\* route(s1).to(hG) and route(s1).route(s2).to(hG) for these segments
GrammarChains ==
    { [segments |-> s, middleware |-> <<>>, handler |-> "hG"] :
        s \in { <<a>> : a \in GrammarSegments }
                 \cup { <<a, b>> : a \in GrammarSegments, b \in GrammarSegments } }

\* registration alone, over chains that exercise the segment analysis
RegisterG == \E reg \in GrammarChains : To(reg)

NextGrammar == RegisterG

SpecGrammar == Init /\ [][NextGrammar]_vars

\* the error factory alone
NextErr == MakeError

SpecErr == Init /\ [][NextErr]_vars

\* a getter that hands out the instance object itself
InstanceGetter_Self(instance) == [instance EXCEPT !.self = TRUE]
\* get INSTANCE() { return { ...this.instance } }: a shallow copy
InstanceGetter(instance) == instance

\* router.newCtx(): a ctx of placeholders; the instance is only read
NewCtx ==
    /\ held.ctxs < MaxCalls
    /\ held' = [held EXCEPT !.ctxs = @ + 1]
    /\ UNCHANGED <<now, nextStatsAt, STATS, sampled, made, builders, exactRoutes, paramRoutes, hooks, sealed, SEQ, INFLIGHT, thrown, calls, registered, stamped>>

\* router.INSTANCE is read
ReadInstance ==
    /\ held' = [held EXCEPT !.instance =
          <<InstanceGetter([SEQ |-> SEQ, INFLIGHT |-> INFLIGHT, self |-> FALSE])>>]
    /\ UNCHANGED <<now, nextStatsAt, STATS, sampled, made, builders, exactRoutes, paramRoutes, hooks, sealed, SEQ, INFLIGHT, thrown, calls, registered, stamped>>

\* the application zeroes the counters of the object it read; the write
\* reaches the router when that object is the router's own
WriteInstance ==
    /\ held.instance # <<>>
    /\ held' = [held EXCEPT !.instance = <<[@[1] EXCEPT !.SEQ = 0, !.INFLIGHT = 0]>>]
    /\ IF held.instance[1].self
       THEN SEQ' = 0 /\ INFLIGHT' = 0
       ELSE UNCHANGED <<SEQ, INFLIGHT>>
    /\ UNCHANGED <<now, nextStatsAt, STATS, sampled, made, builders, exactRoutes, paramRoutes, hooks, sealed, thrown, calls, registered, stamped>>

\* the frame of the counters: contexts are made, the instance is read and
\* written to, one chain is built link by link and registered, a hook is
\* set, and in between calls are dispatched one at a time
InvocationsF == { [op |-> Undefined, raw |-> <<"j", "o", "b">>, data |-> NoData] }
RouteF == builders = <<>> /\ RouterRoute(Str(<<"j", "o", "b">>))
ViaF == builders # <<>> /\ BuilderVia(Len(builders), <<Fn("m1")>>)
ToF == builders # <<>> /\ BuilderTo(Len(builders), Fn("hB"))
ExecF == Idle /\ \E inv \in InvocationsF : Exec(1, inv)

NextFrame ==
    \/ NewCtx \/ ReadInstance \/ WriteInstance
    \/ RouteF \/ ViaF \/ ToF \/ SetFinally
    \/ ExecF \/ Before \/ Pipeline \/ After \/ Finally

SpecFrame == Init /\ [][NextFrame]_vars

\* route("job.:id").to(hWild2)
RegWildAgain == [ segments |-> << <<"j", "o", "b", ".", ":", "i", "d">> >>,
                  middleware |-> <<>>, handler |-> "hWild2" ]

\* chains registered twice over: two with the pattern job.clean, two with
\* the pattern job.:id, all without op
DupChains == {RegClean, RegCleanAgain, RegWild, RegWildAgain}
InvocationsD ==
    { [op |-> Undefined, raw |-> <<"j", "o", "b", ".", "c", "l", "e", "a", "n">>, data |-> NoData],
      [op |-> Undefined, raw |-> <<"j", "o", "b", ".", "4", "2">>, data |-> NoData] }

RegisterD == \E reg \in DupChains : To(reg)
ExecD == Idle /\ \E inv \in InvocationsD : Exec(1, inv)

NextDup == RegisterD \/ ExecD \/ Before \/ Pipeline \/ After \/ Finally

SpecDup == Init /\ [][NextDup]_vars

\* route("get /job/clean").to(hLow)
RegLowClean == [ segments |-> << <<"g", "e", "t", " ", "/", "j", "o", "b", "/", "c", "l", "e", "a", "n">> >>,
                 middleware |-> <<>>, handler |-> "hLow" ]
\* route("get /job/:id").to(hLowWild)
RegLowWild == [ segments |-> << <<"g", "e", "t", " ", "/", "j", "o", "b", "/", ":", "i", "d">> >>,
                middleware |-> <<>>, handler |-> "hLowWild" ]

\* the verb written in upper and in lower case, on chains with and without
\* a parameter, and invocations with op in either spelling
S_get == <<"g", "e", "t">>
CaseChains == {RegGetClean, RegLowClean, RegGet, RegLowWild}
InvocationsK ==
    [ op : {S_GET, S_get},
      raw : { <<"/", "j", "o", "b", "/", "c", "l", "e", "a", "n">>,
              <<"j", "o", "b", ".", "4", "2">> },
      data : {NoData} ]

RegisterK == \E reg \in CaseChains : To(reg)
ExecK == Idle /\ \E inv \in InvocationsK : Exec(1, inv)

NextCase == RegisterK \/ ExecK \/ Before \/ Pipeline \/ After \/ Finally

SpecCase == Init /\ [][NextCase]_vars

\* every throw site of the core: chains are built with good and bad
\* arguments and registered, hooks are set before and after the first
\* call, and calls are dispatched one at a time on routes that exist or not
\* through user functions that may throw
RouteBad == \E segment \in RootArgs : routeError(segment) # "none" /\ RouterRoute(segment)
ViaBad ==
    /\ builders # <<>>
    /\ \E fns \in MiddlewareArgs : viaError(fns) # "none" /\ BuilderVia(Len(builders), fns)
ToBad ==
    /\ builders # <<>>
    /\ \E handler \in HandlerArgs : toError(handler) # "none" /\ BuilderTo(Len(builders), handler)

NextCore ==
    \/ RouteF \/ ViaF \/ ToF \/ RouteBad \/ ViaBad \/ ToBad \/ DirectRegister
    \/ SetBefore \/ SetError
    \/ ExecF \/ Before \/ Pipeline \/ After \/ Catch \/ Finally

SpecCore == Init /\ [][NextCore]_vars

\* the invocations dispatched when the bookkeeping is examined: with and
\* without a client timestamp, with the log buffer of newCtx(), with one of
\* the caller's, with none
ClientTs == STATS_INTERVAL_MS - 1
CallerLog == "callerLog"
InvocationsT ==
    LET base == [op |-> S_GET, raw |-> <<"j", "o", "b", ".", "4", "2">>, data |-> NoData]
    IN  { base,
          [op |-> base.op, raw |-> base.raw, data |-> base.data,
           clientTs |-> ClientTs, log |-> CallerLog],
          [op |-> base.op, raw |-> base.raw, data |-> base.data, log |-> NoLog] }

\* one call at a time while the clock runs; a settled ctx may be handed to
\* exec again
RegisterT == To(RegGet)
ExecT == Idle /\ \E inv \in InvocationsT : Exec(1, inv)
ExecAgainT == Idle /\ \E c \in Calls : ExecAgain(c)

NextTime ==
    \/ SetFinally \/ RegisterT \/ Tick
    \/ ExecT \/ ExecAgainT \/ Before \/ Pipeline \/ After \/ Finally

SpecTime == Init /\ [][NextTime]_vars

\* one call at a time with hooks and stages that may return a context
\* object of their own
RegisterH == To(RegGet)
ExecH == Idle /\ \E inv \in InvocationsC : Exec(1, inv)
BeforeH == \E c \in Calls : BeforeSettlesWith(c, HookOutcomes)
PipelineH == \E c \in Calls : StageSettlesWith(c, StageOutcomes)
AfterH == \E c \in Calls : AfterSettlesWith(c, HookOutcomes)
CatchH == \E c \in Calls : ErrorSettlesWith(c, HookOutcomes)
FinallyH == \E c \in Calls : FinallySettlesWith(c, HookOutcomes)

NextHook ==
    \/ SetBefore \/ SetAfter \/ SetError \/ SetFinally
    \/ RegisterH
    \/ ExecH \/ BeforeH \/ PipelineH \/ AfterH \/ CatchH \/ FinallyH

SpecHook == Init /\ [][NextHook]_vars

\* route("pipe").via(m1, m2).to(hPipe)
RegPipe == [ segments |-> << <<"p", "i", "p", "e">> >>,
             middleware |-> <<"m1", "m2">>, handler |-> "hPipe" ]

\* the chains registered when the composed pipeline is examined
PipeChains == {RegPipe, RegGet}

\* exec("pipe"), exec("GET", "job.42")
InvocationsP ==
    { [op |-> Undefined, raw |-> <<"p", "i", "p", "e">>, data |-> NoData],
      [op |-> S_GET, raw |-> <<"j", "o", "b", ".", "4", "2">>, data |-> NoData] }

\* the composed pipeline alone: no hooks, one call at a time, stages that may
\* return another ctx object
RegisterP == \E reg \in PipeChains : To(reg)
ExecP == Idle /\ \E c \in Calls, inv \in InvocationsP : Exec(c, inv)
PipelineP == \E c \in Calls : StageSettlesWith(c, StageOutcomes)

NextPipe == RegisterP \/ ExecP \/ Before \/ PipelineP \/ After \/ Finally

SpecPipe == Init /\ [][NextPipe]_vars

(***************************************************************************)
(* Properties                                                              *)
(***************************************************************************)
Done(c) == calls[c].pc = "done"
Count(ev, e) == Cardinality({i \in 1..Len(ev) : ev[i] = e})
Has(ev, e) == \E i \in 1..Len(ev) : ev[i] = e

\* the three ways a call settles when the error and finally hooks return:
\* nothing threw; something threw and the error hook returned; something
\* threw, there is no error hook, and exec rejects with what was thrown
Succeeded(c) == Done(c) /\ calls[c].completion = "resolved" /\ calls[c].err = NoError
Handled(c) == Done(c) /\ calls[c].completion = "resolved" /\ calls[c].err # NoError
Rethrown(c) ==
    /\ Done(c) /\ calls[c].completion = "rejected"
    /\ hooks.onExecError = None
    /\ calls[c].err # NoError /\ calls[c].error = calls[c].err

\* C1: in a sequence of exec calls, once a call has settled by handler
\* success, by an error the error hook handled, or by an error rethrown for
\* want of an error hook, INFLIGHT is back at the value it had when that
\* call began.
C1_InflightSymmetry ==
    \A c \in Calls :
        (Succeeded(c) \/ Handled(c) \/ Rethrown(c))
            => INFLIGHT = calls[c].inflightBefore

\* the second call of a sequence settled by rethrowing
C1_Witness ==
    \E c \in Calls : Rethrown(c) /\ calls[c].seq = 2 /\ INFLIGHT = calls[c].inflightBefore

\* C2: whatever path a call took, including a hook that throws, when it has
\* settled the finally hook (if set) was invoked once and INFLIGHT was
\* decremented exactly once for it.
C2_FinallyAndDecrementOnEveryPath ==
    \A c \in Calls :
        Done(c) =>
            /\ hooks.onExecFinally # None => Count(calls[c].events, "finally") = 1
            /\ calls[c].decrements = 1

\* C3: the seq values stamped by the exec calls made so far are 1, 2, ..., N
\* in call order, and the context of the latest call carries one of them.
C3_SeqMonotonic ==
    /\ stamped = [i \in 1..Len(stamped) |-> i]
    /\ \A c \in Calls :
          calls[c].pc # "idle" =>
              calls[c].seq \in 1..Len(stamped) /\ stamped[calls[c].seq] = calls[c].seq

\* two calls made, the second one rejected
C3_Witness ==
    /\ stamped = <<1, 2>>
    /\ \E c \in Calls : Done(c) /\ calls[c].seq = 2 /\ calls[c].completion = "rejected"

\* the position of an event in the lifecycle
Rank(e) ==
    CASE e = "before" -> 1
      [] e \in {"match", "nomatch"} -> 2
      [] e = "after" -> 4
      [] e = "error" -> 5
      [] e = "finally" -> 6
      [] OTHER -> 3

\* the pipeline stages a call has run, in the order it ran them
StagesRun(c) == SelectSeq(calls[c].events, LAMBDA e : Rank(e) = 3)

IfSet(slot, e) == IF hooks[slot] # None THEN <<e>> ELSE <<>>

\* C4: the events of one call occur in the order before, route resolution,
\* pipeline (middlewares in order, then the handler), after, error, finally,
\* each hook at most once and the error hook only after something threw; a
\* call that succeeded ran exactly before, the pipeline, after, finally.
C4_LifecycleOrder ==
    \A c \in Calls :
        LET ev == calls[c].events
            pipeline == calls[c].handler.mw \o <<calls[c].handler.h>>
        IN  /\ \A i, j \in 1..Len(ev) :
                  i < j => /\ Rank(ev[i]) <= Rank(ev[j])
                           /\ Rank(ev[i]) = Rank(ev[j]) => Rank(ev[i]) = 3
            /\ Len(StagesRun(c)) <= Len(pipeline)
            /\ StagesRun(c) = SubSeq(pipeline, 1, Len(StagesRun(c)))
            /\ StagesRun(c) # <<>> => Has(ev, "match")
            /\ Has(ev, "error") => calls[c].err # NoError
            /\ Succeeded(c) =>
                  ev = IfSet("onExecBefore", "before") \o <<"match">> \o pipeline
                       \o IfSet("onExecAfter", "after") \o IfSet("onExecFinally", "finally")

\* a successful dispatch through a middleware with all four hooks set
C4_Witness ==
    \E c \in Calls :
        /\ Succeeded(c)
        /\ calls[c].events = <<"before", "match", "m1", "hGet", "after", "finally">>

\* the error or finally hook of call c threw (exec then rejects with that)
LateHookThrew(c) == calls[c].error.by \in {"error", "finally"}

LastRun(c) ==
    LET ev == SelectSeq(calls[c].events, LAMBDA e : Rank(e) \in {1, 3, 4})
    IN  ev[Len(ev)]

C7_Sealing ==
    [][ \A slot \in HookSlots, fn \in HookFns :
          SetHook(slot, fn) =>
              /\ SEQ = 0 => hooks' = [hooks EXCEPT ![slot] = fn] /\ thrown' = "none"
              /\ (\E c \in Calls : Done(c)) =>
                    hooks' = hooks /\ thrown' = "HOOKS_ALREADY_SEALED" ]_vars

\* a setter was called after a completed exec and threw, a slot set before
\* the first exec still holding its callback
C7_Witness ==
    /\ thrown = "HOOKS_ALREADY_SEALED"
    /\ \E c \in Calls : Done(c)
    /\ hooks.onExecBefore = "fn" /\ hooks.onExecAfter = None

\* C8: sealed is false exactly until exec is first invoked, is true from
\* that invocation on (before any hook or handler of the call has run, so a
\* setter called during the first dispatch throws), whatever the outcome of
\* the call, and never goes back to false.
C8_SealedOneWay ==
    [][ /\ (SEQ = 0) = (~sealed)
        /\ (SEQ' = 0) = (~sealed')
        /\ sealed => sealed'
        /\ \A slot \in HookSlots, fn \in HookFns :
              (SetHook(slot, fn) /\ SEQ > 0) =>
                  hooks' = hooks /\ thrown' = "HOOKS_ALREADY_SEALED" ]_vars

\* a setter threw while the first call was still awaiting its before hook
C8_Witness ==
    /\ thrown = "HOOKS_ALREADY_SEALED"
    /\ SEQ = 1
    /\ \E c \in Calls : calls[c].pc = "before" /\ calls[c].events = <<>>

\* call c resolves its route in this step
Resolves(c) ==
    /\ calls[c].pc = "before"
    /\ Has(calls'[c].events, "match") \/ Has(calls'[c].events, "nomatch")

\* C9: when the exact table holds an entry under the key of the invocation's
\* (op, raw) at the time the route is resolved, the call is dispatched to
\* that entry's handler with that entry's pattern, and to no parameterized
\* route, in whatever order the routes were registered.
C9_ExactBeatsParam ==
    [][ \A c \in Calls :
          LET op == calls[c].op
              raw == calls[c].raw
              key == IF op # Undefined /\ op # <<>>
                     THEN op \o <<":">> \o raw ELSE <<":">> \o raw
          IN  (Resolves(c) /\ key \in DOMAIN exactRoutes) =>
                  /\ calls'[c].handler = exactRoutes[key].route.handler
                  /\ calls'[c].pattern = exactRoutes[key].route.pattern
                  /\ calls'[c].pc = "pipeline"
                  /\ \A i \in 1..Len(paramRoutes) :
                        calls'[c].pattern # paramRoutes[i].route.pattern ]_vars

\* job.clean dispatched to the exact route although job.:id was registered
\* first and matches
C9_Witness ==
    \E c \in Calls :
        /\ registered = <<"hWild", "hClean">>
        /\ calls[c].op = Undefined
        /\ calls[c].raw = <<"j", "o", "b", ".", "c", "l", "e", "a", "n">>
        /\ \E i \in 1..Len(paramRoutes) :
              ParamHit(paramRoutes[i], calls[c].op, calls[c].raw)
        /\ calls[c].handler.h = "hClean"
        /\ Has(calls[c].events, "hClean")

\* C10: with the wildcard route job.:id registered first and the GET route
\* job.:id registered second, an invocation op GET, raw job.42 is resolved
\* to the GET route.
C10_SpecificBeatsWildcard ==
    [][ \A c \in Calls :
          ( /\ Resolves(c)
            /\ registered = <<"hWild", "hGet">>
            /\ calls[c].op = S_GET
            /\ calls[c].raw = <<"j", "o", "b", ".", "4", "2">> )
          => calls'[c].handler.h = "hGet" ]_vars

\* the chain that registers handler h
ChainOf(h) == CHOOSE reg \in Registrations \cup RouteChains : reg.handler = h

\* the parameterized entries one chain commits to an empty store
ParamsOfChain(reg) ==
    registerRouteFrom([exact |-> <<>>, params |-> <<>>],
                      reg.segments, reg.middleware, reg.handler).params

\* the registrations, by position, that committed a parameterized route
\* whose op check and pattern match succeed for (op, raw)
Eligible(op, raw) ==
    { i \in 1..Len(registered) :
        \E k \in 1..Len(ParamsOfChain(ChainOf(registered[i]))) :
            ParamHit(ParamsOfChain(ChainOf(registered[i]))[k], op, raw) }

AllEntries ==
    { exactRoutes[k] : k \in DOMAIN exactRoutes }
        \cup { paramRoutes[i] : i \in 1..Len(paramRoutes) }

\* raw has the shape of the entry's pattern: equal to it for a route without
\* parameters, accepted by its matcher otherwise
PatternFits(entry, raw) ==
    IF \E i \in 1..Len(entry.route.pattern) : entry.route.pattern[i] = ":"
    THEN matcher(entry.route.pattern, raw).ok
    ELSE entry.route.pattern = raw

\* the entry requires an op that the invocation's op (absent, empty or
\* another one) does not supply
OpMismatch(entry, op) ==
    /\ entry.route.op # Undefined
    /\ op = Undefined \/ op = <<>> \/ op # entry.route.op

\* call c was dispatched to the entry in this step
DispatchedTo(c, entry) ==
    /\ calls'[c].pc = "pipeline"
    /\ calls'[c].handler = entry.route.handler
    /\ calls'[c].pattern = entry.route.pattern

\* C12: a call is never dispatched to an entry of either tier whose route
\* has a defined op when the invocation's op is absent, empty or different;
\* and when such an entry fits raw while no entry that accepts the op does,
\* the call ends in HANDLER_NOT_FOUND.
C12_OpRequired ==
    [][ \A c \in Calls :
          Resolves(c) =>
              LET op == calls[c].op
                  raw == calls[c].raw
              IN  /\ (\A d \in AllEntries : OpMismatch(d, op) => ~DispatchedTo(c, d))
                  /\ ( /\ (\E e \in AllEntries : OpMismatch(e, op) /\ PatternFits(e, raw))
                        /\ (\A f \in AllEntries : PatternFits(f, raw) => OpMismatch(f, op)) )
                     => /\ Has(calls'[c].events, "nomatch")
                        /\ calls'[c].handler = NoHandler
                        /\ calls'[c].err = HANDLER_NOT_FOUND(rawKey(op, raw))
                        /\ calls'[c].error = HANDLER_NOT_FOUND(rawKey(op, raw)) ]_vars

\* an invocation with an empty op and raw job.42 was rejected with
\* HANDLER_NOT_FOUND on an engine holding the GET routes of both tiers
C12_Witness ==
    \E c \in Calls :
        /\ registered = <<"hGet", "hGetClean">>
        /\ calls[c].op = <<>> /\ calls[c].raw = <<"j", "o", "b", ".", "4", "2">>
        /\ \E e \in AllEntries : PatternFits(e, calls[c].raw)
        /\ Done(c) /\ calls[c].completion = "rejected"
        /\ calls[c].error.name = "HANDLER_NOT_FOUND"

\* C13: when an entry of either tier whose route has no op fits the raw of
\* an invocation, the call is dispatched whatever its op is (absent or any
\* defined op) and, that entry being the only one that fits raw, it is
\* dispatched to that entry.
C13_NoOpIsWildcard ==
    [][ \A c \in Calls :
          Resolves(c) =>
              \A e \in AllEntries :
                  (e.route.op = Undefined /\ PatternFits(e, calls[c].raw)) =>
                      /\ calls'[c].pc = "pipeline"
                      /\ (\A f \in AllEntries : PatternFits(f, calls[c].raw) => f = e)
                            => DispatchedTo(c, e) ]_vars

\* the entry a chain commits for one pattern
EntryOf(reg, op, pattern) ==
    [ route |-> [ op |-> op, pattern |-> pattern,
                  handler |-> [mw |-> reg.middleware, h |-> reg.handler] ],
      segments |-> reg.segments ]

P_JobId == <<"j", "o", "b", ".", ":", "i", "d">>
P_SlashJobId == <<"/", "j", "o", "b", "/", ":", "i", "d">>
P_JobClean == <<"j", "o", "b", "/", "c", "l", "e", "a", "n">>
P_SlashJobClean == <<"/", "j", "o", "b", "/", "c", "l", "e", "a", "n">>
P_JobDotClean == <<"j", "o", "b", ".", "c", "l", "e", "a", "n">>

\* C14: registering the chain job, :id, GET appends to the parameter list
\* two entries with op GET and the chain's composed handler, the first with
\* pattern job.:id and the second with pattern /job/:id; registering the
\* chain "GET /job/clean" sets two entries of the exact table in the same
\* way; and with job, :id, GET the only registration both (GET, job.42) and
\* (GET, /job/42) are dispatched to its handler.
C14_DualRegistration ==
    [][ /\ registered' = Append(registered, "hGet") =>
              /\ paramRoutes' = paramRoutes \o << EntryOf(RegGet, S_GET, P_JobId),
                                                 EntryOf(RegGet, S_GET, P_SlashJobId) >>
              /\ exactRoutes' = exactRoutes
        /\ registered' = Append(registered, "hGetClean") =>
              /\ paramRoutes' = paramRoutes
              /\ DOMAIN exactRoutes' =
                    DOMAIN exactRoutes \cup { S_GET \o <<":">> \o P_JobClean,
                                              S_GET \o <<":">> \o P_SlashJobClean }
              /\ exactRoutes'[S_GET \o <<":">> \o P_JobClean]
                    = EntryOf(RegGetClean, S_GET, P_JobClean)
              /\ exactRoutes'[S_GET \o <<":">> \o P_SlashJobClean]
                    = EntryOf(RegGetClean, S_GET, P_SlashJobClean)
              /\ \A k \in DOMAIN exactRoutes :
                    k \notin { S_GET \o <<":">> \o P_JobClean, S_GET \o <<":">> \o P_SlashJobClean }
                        => exactRoutes'[k] = exactRoutes[k]
        /\ \A c \in Calls :
              (Resolves(c) /\ registered = <<"hGet">> /\ calls[c].op = S_GET) =>
                  /\ calls[c].raw = <<"j", "o", "b", ".", "4", "2">> =>
                        DispatchedTo(c, EntryOf(RegGet, S_GET, P_JobId))
                  /\ calls[c].raw = <<"/", "j", "o", "b", "/", "4", "2">> =>
                        DispatchedTo(c, EntryOf(RegGet, S_GET, P_SlashJobId)) ]_vars

\* (GET, /job/42) ran the handler of the chain job, :id, GET through its
\* slash-separated route
C14_Witness ==
    \E c \in Calls :
        /\ registered = <<"hGet">>
        /\ calls[c].op = S_GET /\ calls[c].raw = <<"/", "j", "o", "b", "/", "4", "2">>
        /\ calls[c].pattern = P_SlashJobId
        /\ calls[c].handler = [mw |-> <<"m1">>, h |-> "hGet"]
        /\ Has(calls[c].events, "hGet")

\* C15: registering a chain without a verb token commits exactly one entry,
\* whose pattern is the segments joined by "." and whose op is absent: job,
\* :id appends one entry to the parameter list and leaves the exact table
\* alone; job, clean sets the one key ":job.clean" of the exact table and
\* leaves the parameter list alone.
C15_SingleRegistration ==
    [][ /\ registered' = Append(registered, "hWild") =>
              /\ paramRoutes' = Append(paramRoutes, EntryOf(RegWild, Undefined, P_JobId))
              /\ exactRoutes' = exactRoutes
        /\ registered' = Append(registered, "hClean") =>
              /\ paramRoutes' = paramRoutes
              /\ DOMAIN exactRoutes' = DOMAIN exactRoutes \cup { <<":">> \o P_JobDotClean }
              /\ exactRoutes'[<<":">> \o P_JobDotClean]
                    = EntryOf(RegClean, Undefined, P_JobDotClean)
              /\ \A k \in DOMAIN exactRoutes :
                    k # <<":">> \o P_JobDotClean => exactRoutes'[k] = exactRoutes[k] ]_vars

\* job, :id then job, clean registered: one entry in each tier, none with a
\* slash-separated pattern
C15_Witness ==
    /\ registered = <<"hWild", "hClean">>
    /\ paramRoutes = << EntryOf(RegWild, Undefined, P_JobId) >>
    /\ DOMAIN exactRoutes = { <<":">> \o P_JobDotClean }
    /\ \A e \in AllEntries : \A i \in 1..Len(e.route.pattern) : e.route.pattern[i] # "/"

\* the pattern has a parameter marker
HasParams(pattern) == \E i \in 1..Len(pattern) : pattern[i] = ":"

\* C16: a call that is dispatched gets as ctx.req.route.pattern the pattern
\* of the entry it is dispatched to, which for a parameterized route differs
\* from raw, and every parameter the route's matcher captures from raw is a
\* key of ctx.req.data; the engine changes neither until the call settles.
\* Dispatching (GET, /job/42) with empty data to the route GET /job/:id
\* yields pattern /job/:id and data.id = "42".
C16_PatternAndParams ==
    [][ \A c \in Calls :
          /\ (Resolves(c) /\ calls'[c].pc = "pipeline") =>
                \E e \in AllEntries :
                    /\ DispatchedTo(c, e)
                    /\ PatternFits(e, calls[c].raw)
                    /\ HasParams(e.route.pattern) =>
                          /\ calls'[c].pattern # calls[c].raw
                          /\ \A name \in DOMAIN matcher(e.route.pattern, calls[c].raw).params :
                                name \in DOMAIN calls'[c].data
                    /\ (e = EntryOf(RegGet, S_GET, P_SlashJobId) /\ calls[c].data = NoData) =>
                          calls'[c].data =
                              [k \in { <<"i", "d">> } |-> SubSeq(calls[c].raw, 6, Len(calls[c].raw))]
          /\ calls[c].pc \in {"pipeline", "after", "finally"} =>
                /\ calls'[c].pattern = calls[c].pattern
                /\ calls'[c].data = calls[c].data ]_vars

\* (GET, /job/42) succeeded with pattern /job/:id and data.id = "42"
C16_Witness ==
    \E c \in Calls :
        /\ Succeeded(c)
        /\ calls[c].op = S_GET /\ calls[c].raw = <<"/", "j", "o", "b", "/", "4", "2">>
        /\ calls[c].pattern = P_SlashJobId
        /\ calls[c].data = [k \in { <<"i", "d">> } |-> <<"4", "2">>]

\* call c finds no route in this step
Misses(c) == Resolves(c) /\ Has(calls'[c].events, "nomatch")

\* C17 as stated: when no route resolves, the data of the HANDLER_NOT_FOUND
\* error carries the attempted op, the attempted raw and the pattern, and
\* ctx.req.route.pattern is left as it was.
C17_NotFoundCarriesOpRawPattern ==
    [][ \A c \in Calls :
          Misses(c) =>
              /\ calls'[c].err.name = "HANDLER_NOT_FOUND"
              /\ {"op", "raw", "pattern"} \subseteq DOMAIN calls'[c].err.data
              /\ calls'[c].pattern = calls[c].pattern ]_vars

\* C17 amended: when no route resolves, the data of the HANDLER_NOT_FOUND
\* error is the one field route, holding "op raw" when the invocation has a
\* non-empty op and raw alone otherwise; ctx.req.route.pattern is left as
\* it was before the call until the call settles.
C17_NotFoundCarriesRoute ==
    [][ \A c \in Calls :
          /\ Misses(c) =>
                /\ calls'[c].err.name = "HANDLER_NOT_FOUND"
                /\ DOMAIN calls'[c].err.data = {"route"}
                /\ calls'[c].err.data.route =
                      IF calls[c].op \in {Undefined, <<>>}
                      THEN calls[c].raw
                      ELSE calls[c].op \o <<" ">> \o calls[c].raw
                /\ calls'[c].error = calls'[c].err
                /\ calls'[c].pattern = PENDING
          /\ (calls[c].pc = "finally" /\ Has(calls[c].events, "nomatch")) =>
                /\ calls'[c].pattern = PENDING
                /\ calls'[c].error = calls[c].error ]_vars

\* (POST, /job/42) found no route on an engine that has routes and was
\* rejected with data.route = "POST /job/42", the pattern still unset
C17_Witness ==
    \E c \in Calls :
        /\ Done(c) /\ Has(calls[c].events, "nomatch") /\ registered # <<>>
        /\ calls[c].completion = "rejected"
        /\ calls[c].error.name = "HANDLER_NOT_FOUND"
        /\ calls[c].error.data.route =
              <<"P", "O", "S", "T", " ", "/", "j", "o", "b", "/", "4", "2">>
        /\ calls[c].pattern = PENDING

\* C18: when a call is dispatched, every key ctx.req.data had before the
\* match keeps its value, a key that is new is a parameter the route's
\* matcher captured from raw and holds the captured value, and a dispatch to
\* an exact route leaves ctx.req.data as it was.
C18_ParamsLowestPriority ==
    [][ \A c \in Calls :
          (Resolves(c) /\ calls'[c].pc = "pipeline") =>
              LET old == calls[c].data
                  new == calls'[c].data
              IN  /\ \A k \in DOMAIN old : k \in DOMAIN new /\ new[k] = old[k]
                  /\ \E e \in AllEntries :
                        /\ DispatchedTo(c, e)
                        /\ IF HasParams(e.route.pattern)
                           THEN LET captured == matcher(e.route.pattern, calls[c].raw).params
                                IN  /\ DOMAIN new = DOMAIN old \cup DOMAIN captured
                                    /\ \A k \in DOMAIN new \ DOMAIN old : new[k] = captured[k]
                           ELSE new = old ]_vars

\* job.42 was dispatched to job.:id with data.id = "9" set by the caller,
\* and the handler ran with data.id still "9"
C18_Witness ==
    \E c \in Calls :
        /\ calls[c].raw = <<"j", "o", "b", ".", "4", "2">>
        /\ calls[c].pattern = P_JobId
        /\ calls[c].data = IdData
        /\ Has(calls[c].events, "hWild")

\* a builder call that failed committed nothing
NothingCommitted ==
    /\ exactRoutes' = exactRoutes /\ paramRoutes' = paramRoutes
    /\ builders' = builders /\ registered' = registered

\* the value is not a non-empty string
BadSegment(segment) == segment.typeof # "string" \/ segment.value = <<>>

\* C19: router.route(s) and builder.route(s) with s empty or not a string
\* throw INVALID_ROUTE_SEGMENT, via(...) with an argument that is not a
\* function throws INVALID_MIDDLEWARE, to(h) with h not a function throws
\* INVALID_HANDLER and registerRouteFrom with no segments throws
\* MISSING_SEGMENTS; the error is thrown by the call itself, which creates
\* no builder and leaves both storage tiers as they were.
C19_BuilderValidation ==
    [][ /\ \A segment \in RootArgs :
              (RouterRoute(segment) /\ BadSegment(segment)) =>
                  thrown' = "INVALID_ROUTE_SEGMENT" /\ NothingCommitted
        /\ \A b \in Builders, segment \in SegmentArgs :
              (BuilderRoute(b, segment) /\ BadSegment(segment)) =>
                  thrown' = "INVALID_ROUTE_SEGMENT" /\ NothingCommitted
        /\ \A b \in Builders, fns \in MiddlewareArgs :
              (BuilderVia(b, fns) /\ \E i \in 1..Len(fns) : fns[i].typeof # "function") =>
                  thrown' = "INVALID_MIDDLEWARE" /\ NothingCommitted
        /\ \A b \in Builders, handler \in HandlerArgs :
              (BuilderTo(b, handler) /\ handler.typeof # "function") =>
                  thrown' = "INVALID_HANDLER" /\ NothingCommitted
        /\ \A handler \in DirectHandlers :
              RegisterRouteFrom(<<>>, <<>>, handler) =>
                  thrown' = "MISSING_SEGMENTS" /\ NothingCommitted ]_vars

\* to() was called with a plain object on an engine that has a route, and
\* threw
C19_Witness ==
    /\ thrown = "INVALID_HANDLER"
    /\ Len(registered) = 1 /\ Len(paramRoutes) = 1
    /\ Len(builders) = 2

\* the segments and middleware builder b stands for: those of the builder it
\* was derived from, followed by what the deriving call added
RECURSIVE ChainSegments(_, _)
ChainSegments(heap, b) ==
    IF heap[b].parent = 0 THEN heap[b].added
    ELSE ChainSegments(heap, heap[b].parent) \o heap[b].added

RECURSIVE ChainMiddleware(_, _)
ChainMiddleware(heap, b) ==
    IF heap[b].parent = 0 THEN heap[b].via
    ELSE ChainMiddleware(heap, heap[b].parent) \o heap[b].via

\* C20: no call changes a builder that exists (route and via return a new
\* one); every builder holds exactly the segments and middleware of its own
\* line of derivation, so nothing added on another branch; and to() on a
\* builder commits entries that carry that builder's segments and
\* middleware only.
C20_BuilderImmutable ==
    [][ /\ Len(builders') >= Len(builders)
        /\ \A b \in Builders : builders'[b] = builders[b]
        /\ \A b \in 1..Len(builders') :
              /\ builders'[b].segments = ChainSegments(builders', b)
              /\ builders'[b].middleware = ChainMiddleware(builders', b)
        /\ \A b \in Builders, handler \in HandlerArgs :
              (BuilderTo(b, handler) /\ registered' # registered) =>
                  LET mine(e) ==
                        /\ e.segments = ChainSegments(builders, b)
                        /\ e.route.handler =
                              [mw |-> ChainMiddleware(builders, b), h |-> handler.value]
                  IN  /\ \E e \in AllEntries' : mine(e)
                      /\ \A e \in AllEntries' : e \in AllEntries \/ mine(e) ]_vars

\* from the prefix job, one branch added :id and another added m1; the :id
\* branch and the prefix were registered, neither with m1, the prefix
\* without :id
C20_Witness ==
    /\ Len(builders) = 3
    /\ builders[2].parent = 1 /\ builders[2].added = << <<":", "i", "d">> >>
    /\ builders[3].parent = 1 /\ builders[3].via = <<"m1">>
    /\ Len(paramRoutes) = 1
    /\ paramRoutes[1].segments = << <<"j", "o", "b">>, <<":", "i", "d">> >>
    /\ paramRoutes[1].route.handler = [mw |-> <<>>, h |-> "hB"]
    /\ DOMAIN exactRoutes = { <<":", "j", "o", "b">> }
    /\ exactRoutes[<<":", "j", "o", "b">>].segments = << <<"j", "o", "b">> >>
    /\ exactRoutes[<<":", "j", "o", "b">>].route.handler = [mw |-> <<>>, h |-> "hB"]


\* C21 The composed pipeline of a matched route runs the middleware in the
\* order they were declared and then the handler, one after the other: the
\* first stage is given the ctx the pipeline was called with, every later
\* stage the ctx the stage before it returned, and when a stage throws no
\* later stage runs.
C21_PipelineThreadsCtx ==
    \A c \in Calls :
        calls[c].handler # NoHandler =>
            LET expected == calls[c].handler.mw \o <<calls[c].handler.h>>
                run == StagesRun(c)
                n == Len(run)
                stageThrew == \E k \in 1..Len(expected) : calls[c].threw = expected[k]
            IN  /\ n <= Len(expected)
                /\ run = SubSeq(expected, 1, n)
                /\ Len(calls[c].received) = n
                /\ n >= 1 => calls[c].received[1] = 0
                /\ \A k \in 2..n : calls[c].received[k] = calls[c].returned[k - 1]
                /\ Len(calls[c].returned) = IF stageThrew THEN n - 1 ELSE n
                /\ stageThrew => calls[c].threw = run[n] /\ calls[c].pc # "pipeline"
                /\ (calls[c].pc = "pipeline" /\ ~stageThrew) => calls[c].stage = n + 1
                /\ (Done(c) /\ ~stageThrew) => n = Len(expected)

\* a call of pipe ran m1, which returned a new ctx object, then m2, which
\* was given that object and threw; hPipe never ran and the call settled
C21_Witness ==
    \E c \in Calls :
        /\ Done(c)
        /\ calls[c].handler = [mw |-> <<"m1", "m2">>, h |-> "hPipe"]
        /\ StagesRun(c) = <<"m1", "m2">>
        /\ calls[c].threw = "m2"
        /\ calls[c].received = <<0, 1>>
        /\ calls[c].returned = <<1>>


\* C22 For every category and name of a catalog given to ctxErrMap, the
\* constructor made for it returns an instance of the given error class
\* whose name is the catalog key, whose message is the msg given to the
\* constructor when there is one and the catalog's message otherwise, whose
\* data is the data given or an empty object, and whose info is the info given.
C22_ErrorFactory ==
    made.made =>
        LET e == made.e
            given(k) == k \in DOMAIN e
        IN  /\ made.error.class = made.errorClass
            /\ made.error.name = made.key
            /\ made.error.message =
                  IF given("msg") THEN e["msg"] ELSE made.errKeyMsg[made.category][made.key]
            /\ made.error.own["data"] = IF given("data") THEN e["data"] ELSE EmptyObject
            /\ Get(made.error.own, "info") = IF given("info") THEN e["info"] ELSE JsUndefined

\* auth.TOKEN_EXPIRED was called with a msg, data and info and the error has
\* all three
C22_Witness ==
    /\ made.made
    /\ made.key = "TOKEN_EXPIRED"
    /\ DOMAIN made.e = {"msg", "data", "info"}
    /\ made.error.class = "CtxError"
    /\ made.error.message = "Custom unauthorized message"
    /\ made.error.own = [data |-> "{reason}", info |-> "{attemptedAt}"]


\* C23 However concurrent exec calls interleave at their awaits, no two calls
\* get the same seq, and a call that began later has a strictly larger seq
\* than one that began earlier, also when the later one settles first.
C23_SeqUniqueAndOrdered ==
    /\ \A i, j \in 1..Len(stamped) : i < j => stamped[i] < stamped[j]
    /\ \A c \in Calls :
          calls[c].pc # "idle" => c <= Len(stamped) /\ calls[c].seq = stamped[c]
    /\ \A c, d \in Calls :
          (c < d /\ calls[d].pc # "idle") =>
              calls[c].pc # "idle" /\ calls[c].seq < calls[d].seq

\* the second call has settled while the first, begun before it, is still
\* in its pipeline
C23_Witness ==
    /\ calls[1].pc = "pipeline" /\ calls[1].seq = 1
    /\ Done(2) /\ calls[2].seq = 2

\* C24 In every reachable state of concurrent use INFLIGHT is the number of
\* calls that did their begin bookkeeping and have not done their end
\* bookkeeping; it is never negative, and the inflight a call records at its
\* beginning is at least 1.
C24_InflightCountsOpenCalls ==
    /\ INFLIGHT = Cardinality({c \in Calls : calls[c].pc # "idle" /\ calls[c].decrements = 0})
    /\ INFLIGHT >= 0
    /\ \A c \in Calls :
          calls[c].pc # "idle" =>
              /\ calls[c].inflight >= 1
              /\ calls[c].inflight = calls[c].inflightBefore + 1
              /\ calls[c].decrements \in {0, 1}
              /\ calls[c].decrements = 1 => Done(c)

\* two calls overlap: the second began while the first was open and recorded
\* 2; the first has since done its end bookkeeping and the gauge is 1
C24_Witness ==
    /\ Done(1) /\ calls[1].decrements = 1 /\ calls[1].inflight = 1
    /\ Active(2) /\ calls[2].inflight = 2
    /\ INFLIGHT = 1

\* C25 With every suspended call eventually resumed and every hook,
\* middleware and handler eventually returning or throwing, every call that
\* began eventually settles, and whenever no call is active INFLIGHT is 0.
C25_CountersLive ==
    /\ \A c \in Calls : Active(c) ~> Done(c)
    /\ [](Idle => INFLIGHT = 0)


InExact(exact, e) == \E k \in DOMAIN exact : exact[k] = e
InParams(params, e) == \E i \in 1..Len(params) : params[i] = e
EntriesOf(exact, params) ==
    { exact[k] : k \in DOMAIN exact } \cup { params[i] : i \in 1..Len(params) }

\* every stored entry is in one collection only, the list exactly when its
\* pattern has a parameter marker, and the registration that just ran left
\* an entry with its handler
Placed(exact, params, handler) ==
    /\ \A e \in EntriesOf(exact, params) :
          /\ InParams(params, e) <=> HasParams(e.route.pattern)
          /\ InExact(exact, e) <=> ~HasParams(e.route.pattern)
    /\ \E e \in EntriesOf(exact, params) : e.route.handler.h = handler

\* C26 After every registration each committed route is in exactly one of
\* the two collections, the list exactly when its pattern has a parameter
\* marker, never in both and never in neither.
C26_StorePartition ==
    [][ registered' # registered =>
          /\ Placed(exactRoutes', paramRoutes', registered'[Len(registered')])
          /\ \A e \in AllEntries : e \in AllEntries' ]_vars

\* op a of a route and op b of an invocation are both absent or empty, or
\* the same string
SameOp(a, b) == (~Truthy(a) /\ ~Truthy(b)) \/ a = b

\* C27 When the exact table answers an invocation (op, raw), the entry it
\* returns has pattern raw and op equal to the invocation's op (both absent
\* or empty, or the same string): no invocation reaches an entry registered
\* under another op or pattern.
C27_ExactHitIsSamePair ==
    [][ \A c \in Calls :
          (/\ calls[c].pc = "before" /\ calls'[c].pc = "pipeline"
           /\ ~HasParams(calls'[c].pattern)) =>
              /\ calls'[c].pattern = calls[c].raw
              /\ \E k \in DOMAIN exactRoutes :
                    /\ exactRoutes[k].route.handler = calls'[c].handler
                    /\ exactRoutes[k].route.pattern = calls[c].raw
                    /\ SameOp(exactRoutes[k].route.op, calls[c].op)
              /\ \A k \in DOMAIN exactRoutes :
                    exactRoutes[k].route.handler = calls'[c].handler =>
                        SameOp(exactRoutes[k].route.op, calls[c].op) ]_vars

\* with job.clean registered without an op and GET /job/clean with one, an
\* invocation with the empty op reached the first and one with GET the second
C27_Witness ==
    /\ registered = <<"hClean", "hGetClean">>
    /\ \E c \in Calls :
          /\ calls[c].handler.h = "hGetClean"
          /\ calls[c].op = S_GET
          /\ calls[c].raw = <<"/", "j", "o", "b", "/", "c", "l", "e", "a", "n">>
          /\ calls[c].pattern = calls[c].raw
          /\ calls[c].seq = 2


\* the tokens of a chain, in chain order
ChainTokens(segments) ==
    SelectSeq(Flatten([i \in 1..Len(segments) |-> split(segments[i])]), NonEmpty)

\* the non-verb tokens of a chain, each without its leading "/"
BaseList(segments) ==
    LET rest == SelectSeq(ChainTokens(segments), IsPathPart)
    IN  [i \in 1..Len(rest) |-> StripSlash(rest[i])]

\* C28 For any segment chain, the first token (in chain order, after
\* splitting at whitespace) that is an HTTP verb in any letter case
\* becomes the op of the route, every verb token is left out of the base
\* list and every other token loses its leading "/": the primary pattern of
\* a chain with a verb is the base list joined with "." and never starts
\* with "/".
C28_HttpGrammar ==
    [][ registered' # registered =>
          \A e \in AllEntries' \ AllEntries :
              LET verbs == SelectSeq(ChainTokens(e.segments), IsMethod)
                  primary == join(BaseList(e.segments), <<".">>)
              IN  verbs # <<>> =>
                      /\ e.route.op = verbs[1]
                      /\ \E f \in AllEntries' :
                            /\ f.segments = e.segments
                            /\ f.route.op = verbs[1]
                            /\ f.route.pattern = primary
                            /\ ~startsWith(f.route.pattern, <<"/">>) ]_vars


\* C29 After the first exec call the route store does not change: no later
\* route(), via() or to() adds, replaces or removes an entry of the exact
\* table or of the parameter list.
C29_StoreFrozenAfterExec ==
    [][ (sealed \/ SEQ > 0) =>
            exactRoutes' = exactRoutes /\ paramRoutes' = paramRoutes ]_vars

\* C30 No step of an exec call, whatever the outcome of the call, changes
\* the exact table, the parameter list (contents and order) or the four
\* hook callbacks.
C30_ExecLeavesStoreAndHooks ==
    [][ calls' # calls =>
            /\ exactRoutes' = exactRoutes
            /\ paramRoutes' = paramRoutes
            /\ hooks' = hooks ]_vars

\* a call that was rejected has settled, with routes in both collections
\* and hooks registered
C30_Witness ==
    /\ \E c \in Calls : Done(c) /\ calls[c].completion = "rejected"
    /\ DOMAIN exactRoutes # {}
    /\ paramRoutes # <<>>
    /\ hooks.onExecBefore # None
    /\ hooks.onExecFinally # None


\* C39: the stats are refreshed lazily.  A sample is taken only by a step
\* of exec (one that assigns a seq), it is taken at the first exec call and
\* afterwards exactly when the clock is at or past the last sample time
\* plus STATS_INTERVAL_MS; so two samples are never less than one interval
\* apart.
Last(s) == s[Len(s)]
Stale == sampled = <<>> \/ now >= Last(sampled) + STATS_INTERVAL_MS
C39_LazyStats ==
    [][ /\ sampled' # sampled =>
              /\ SEQ' # SEQ
              /\ Stale
              /\ sampled' = Append(sampled, now)
        /\ (SEQ' # SEQ /\ Stale) => sampled' # sampled
        /\ \A i \in 1..(Len(sampled') - 1) :
              sampled'[i + 1] - sampled'[i] >= STATS_INTERVAL_MS ]_vars
\* a second exec one interval after the first sampled again
C39_Witness ==
    /\ SEQ = 2
    /\ Len(sampled) = 2
    /\ sampled[2] - sampled[1] = STATS_INTERVAL_MS

\* C33: begin bookkeeping of every exec call, a second exec of the same ctx
\* included.  The step that starts a call leaves ctx.id, traceId and spanId
\* at "<instanceId>-<seq>" for the seq this call was assigned, meta.instance
\* holding that seq, the gauge after the increment and the current stats,
\* meta.ts holding in = now with out and execTime at the placeholder -1, and
\* the log buffer the ctx carried still attached.
Starts(c) == calls[c].pc # "before" /\ calls'[c].pc = "before"
StartsAgain(c) == Starts(c) /\ calls[c].pc = "done" /\ calls'[c].execs = calls[c].execs + 1
C33_BeginBookkeeping ==
    [][ \A c \in Calls : Starts(c) =>
          LET ctx == calls'[c]
              trace == InstanceId \o <<"-">> \o Decimal(SEQ')
          IN  /\ SEQ' = SEQ + 1 /\ ctx.seq = SEQ'
              /\ ctx.id = trace /\ ctx.traceId = trace /\ ctx.spanId = trace
              /\ ctx.inflight = INFLIGHT' /\ ctx.cpu = STATS'.cpu /\ ctx.mem = STATS'.mem
              /\ ctx.ts.in = now /\ ctx.ts.out = -1 /\ ctx.ts.execTime = -1
              /\ ctx.log = ctx.handedLog
              /\ StartsAgain(c) => ctx.log = calls[c].log /\ ctx.seq # calls[c].seq ]_vars
\* a ctx with a log buffer of the caller's begins its second call, later
\* than the first
C33_Witness ==
    \E c \in Calls :
        /\ calls[c].pc = "before" /\ calls[c].execs = 2
        /\ calls[c].id = <<"a", "7", "-", "2">>
        /\ calls[c].log = CallerLog
        /\ calls[c].ts.in > 0 /\ calls[c].ts.out = -1

\* C34: timing bookkeeping.  From the begin segment on, clientIn is the
\* caller's timestamp when there is one and in otherwise, and owd is
\* in - clientIn (0 without a client timestamp); once exec has settled, on
\* whatever path, out is set and execTime = out - in >= 0.
C34_Timing ==
    \A c \in Calls :
        LET ctx == calls[c]
        IN  /\ ctx.pc # "idle" =>
                /\ ctx.ts.clientIn = IF ctx.hasClientTs THEN ctx.clientTs ELSE ctx.ts.in
                /\ ctx.ts.owd = ctx.ts.in - ctx.ts.clientIn
                /\ ~ctx.hasClientTs => ctx.ts.owd = 0
            /\ ctx.pc = "done" =>
                /\ ctx.ts.out >= ctx.ts.in
                /\ ctx.ts.execTime = ctx.ts.out - ctx.ts.in
                /\ ctx.ts.execTime >= 0

\* C35: the hooks are side-effecting only.  A step in which a hook is
\* called hands it the object ctx refers to and leaves ctx referring to
\* that object whatever the hook returns; so no object a hook returned is
\* ever passed on to the pipeline, to a later hook, to the end bookkeeping
\* or to the caller of exec.
HookObjects == {HookObject(h) : h \in {"before", "after", "error", "finally"}}
HookCalled(c) == Len(calls'[c].hookArgs) = Len(calls[c].hookArgs) + 1
C35_HookReturnIgnored ==
    [][ \A c \in Calls :
          /\ HookCalled(c) =>
                /\ Last(calls'[c].hookArgs).obj = calls[c].cur
                /\ calls'[c].cur = calls[c].cur
          /\ calls'[c].cur \notin HookObjects
          /\ calls'[c].result \notin HookObjects
          /\ calls'[c].tsOn \notin HookObjects
          /\ calls'[c].resolvedWith \notin HookObjects ]_vars
\* a call on which the before, after and finally hook each returned an
\* object of their own resolved with the ctx it was given
C35_Witness ==
    \E c \in Calls :
        /\ calls[c].pc = "done" /\ calls[c].completion = "resolved"
        /\ [i \in 1..Len(calls[c].hookArgs) |-> calls[c].hookArgs[i].ret] = <<11, 12, 14>>
        /\ calls[c].returned = <<0, 0>>
        /\ calls[c].resolvedWith = 0

\* C36: on a successful dispatch exec resolves with the context the
\* composed pipeline returned, and the after hook, the finally hook and the
\* end timestamps are applied to that object, also when it is another
\* object than the one exec was called with.
ArgOf(c, hook) ==
    {calls[c].hookArgs[i].obj : i \in {j \in 1..Len(calls[c].hookArgs) : calls[c].hookArgs[j].hook = hook}}
C36_ResolvesWithPipelineCtx ==
    \A c \in Calls : Succeeded(c) =>
        LET out == Last(calls[c].returned)
        IN  /\ calls[c].resolvedWith = out
            /\ calls[c].tsOn = out /\ calls[c].ts.out # -1
            /\ ArgOf(c, "after") \subseteq {out}
            /\ ArgOf(c, "finally") \subseteq {out}
\* the handler returned an object of its own; the after hook, the finally
\* hook and the timestamps went to it and exec resolved with it
C36_Witness ==
    \E c \in Calls :
        /\ Succeeded(c)
        /\ calls[c].returned = <<0, 2>>
        /\ ArgOf(c, "before") = {0} /\ ArgOf(c, "after") = {2} /\ ArgOf(c, "finally") = {2}
        /\ calls[c].tsOn = 2 /\ calls[c].resolvedWith = 2

\* C31: SEQ and INFLIGHT change only inside exec.  A step that changes
\* either counter is a step of a call: the begin segment, which raises both
\* by one, or the end of the finally block, which lowers INFLIGHT by one.
\* newCtx(), reading the instance (a copy) and writing to what was read,
\* route()/via()/to() and the hook setters leave both as they are, and
\* neither counter is ever set back.
CallStep == \E c \in Calls : calls'[c] # calls[c]
C31_CountersChangeOnlyInExec ==
    [][ /\ (SEQ' # SEQ \/ INFLIGHT' # INFLIGHT) =>
              /\ CallStep
              /\ UNCHANGED <<held, builders, registered, hooks, exactRoutes, paramRoutes>>
        /\ SEQ' # SEQ =>
              /\ SEQ' = SEQ + 1 /\ INFLIGHT' = INFLIGHT + 1
              /\ \E c \in Calls : Starts(c)
        /\ (SEQ' = SEQ /\ INFLIGHT' # INFLIGHT) =>
              /\ INFLIGHT' = INFLIGHT - 1
              /\ \E c \in Calls : calls[c].pc = "finally" /\ calls'[c].pc = "done" ]_vars
\* after two calls the application has made contexts, built and
\* registered a chain, set a hook, and zeroed the counters of the object it
\* read from the router, whose own counters stand at 2 and 0
C31_Witness ==
    /\ SEQ = 2 /\ INFLIGHT = 0
    /\ held.ctxs = 2
    /\ held.instance # <<>> /\ held.instance[1].SEQ = 0
    /\ Len(builders) >= 2 /\ Len(registered) >= 1
    /\ hooks.onExecFinally # None

\* C32: every error the core raises itself (INVALID_ROUTE_SEGMENT,
\* INVALID_MIDDLEWARE, INVALID_HANDLER, MISSING_SEGMENTS, MISSING_HANDLER,
\* HOOKS_ALREADY_SEALED, HANDLER_NOT_FOUND) is an instance of CtxRouterError
\* named by its key, and what a user hook, middleware or handler throws is
\* what the catch block catches, what the error hook is handed and what
\* exec rejects with: the core neither wraps nor replaces it.
CoreErrorKeys ==
    {"INVALID_ROUTE_SEGMENT", "INVALID_MIDDLEWARE", "INVALID_HANDLER",
     "MISSING_SEGMENTS", "MISSING_HANDLER", "HOOKS_ALREADY_SEALED"}
C32_CoreErrorsOneClass ==
    /\ thrown # "none" =>
          /\ thrown \in CoreErrorKeys
          /\ Throw(thrown).class = "CtxRouterError"
          /\ Throw(thrown).name = thrown
    /\ \A c \in Calls :
          LET ctx == calls[c]
          IN  /\ \A e \in {ctx.err, ctx.errorArg, ctx.error} :
                    /\ e.by = "router" =>
                          e.class = "CtxRouterError" /\ e.name = "HANDLER_NOT_FOUND"
                    /\ e.class = "CtxRouterError" => e.by = "router"
                    /\ e.by \notin {"router", "none"} => e = UserError(e.by)
              /\ ctx.threw # "none" => ctx.err = UserError(ctx.threw)
              /\ ctx.errorArg # NoError => ctx.errorArg = ctx.err
              /\ (ctx.pc = "done" /\ ctx.completion = "rejected" /\ ~LateHookThrew(c)) =>
                    ctx.error = ctx.err
\* a call rejected with what its middleware threw, and a hook setter that
\* threw HOOKS_ALREADY_SEALED afterwards
C32_Witness ==
    /\ thrown = "HOOKS_ALREADY_SEALED"
    /\ \E c \in Calls :
          /\ calls[c].pc = "done" /\ calls[c].completion = "rejected"
          /\ calls[c].threw = "m1"
          /\ calls[c].error = UserError("m1")
          /\ calls[c].error.class # "CtxRouterError"

\* C37: a second parameter-free registration with the op and pattern of a
\* committed one replaces the stored entry: the exact table holds one entry
\* under the key, that of the registration made last, and an invocation
\* with that op and raw is dispatched to its handler.  Parameterized
\* duplicates are all kept, in registration order, and the one registered
\* first is dispatched.
CleanHandlers == {"hClean", "hClean2"}
WildHandlers == {"hWild", "hWild2"}
Among(s, set) == SelectSeq(s, LAMBDA h : h \in set)
VerbWritten(h) == IF h \in {"hLow", "hLowWild"} THEN <<"g", "e", "t">> ELSE <<"G", "E", "T">>
C38_OpSpellingKept ==
    [][ /\ \A e \in EntriesOf(exactRoutes', paramRoutes') :
              e.route.op = VerbWritten(e.route.handler.h)
        /\ \A k \in DOMAIN exactRoutes' :
              SubSeq(k, 1, 3) = VerbWritten(exactRoutes'[k].route.handler.h)
        /\ \A c \in Calls :
              (calls[c].pc = "before" /\ calls'[c].pc = "pipeline") =>
                  calls[c].op = VerbWritten(calls'[c].handler.h) ]_vars
\* /job/clean is registered under GET and under get; the call with op get
\* went to the handler of the lower-case chain
C38_Witness ==
    /\ registered = <<"hGetClean", "hLow">>
    /\ \E c \in Calls :
          /\ calls[c].pc = "done" /\ calls[c].completion = "resolved"
          /\ calls[c].op = <<"g", "e", "t">>
          /\ StagesRun(c) = <<"hLow">>
====
